---- MODULE Spec2Model ----
(***************************************************************************)
(* Model of the LEED / LL97 record-linkage core:                           *)
(*   src/src/leed_ll97_report/normalize.py  (field normalizers)            *)
(*   src/src/leed_ll97_report/matching.py   (matcher, overrides, master)   *)
(*                                                                         *)
(* Strings are sequences of one-character strings, so that the regular     *)
(* expressions and the str methods of the source act on characters as in   *)
(* Python.  Str(s) turns such a sequence into a TLA+ string for dictionary *)
(* lookups.                                                                *)
(***************************************************************************)
EXTENDS Integers, Sequences, FiniteSets, TLC

\* the normalizers
VARIABLES norm_fn, norm_raw, norm_out, norm_prev, norm_calls

\* match_buildings: its arguments, its lookup indexes, its loop and its results
VARIABLES leed_df, nyc_df, fuzzy_address_threshold, fuzzy_name_threshold,
          min_confidence, nyc_by_bbl, nyc_by_bin, nyc_by_addr_zip, nyc_addr_list,
          leed_pos, matches, unmatched_leed, matched_df, review_queue

\* apply_manual_mapping and build_master_table
VARIABLES use_manual_mapping, manual_file, manual, master

\* the point the pipeline has reached, and the exception that ended it
VARIABLES pc, error

\* the benchmarking and LL97 tables build_master_table is called with
VARIABLES bench_df, ll97_df

\* one fuzzy tier on one candidate: the tier, the candidate's score and the
\* confidence the tier gives it
VARIABLES tier, tier_score, tier_confidence

\* the end-to-end runner: its flag, the step it is at, the steps it has
\* called, those that raised, its timings and the run log
VARIABLES skip_download, run_pc, called, raised, step_times, run_log

norm_vars == <<norm_fn, norm_raw, norm_out, norm_prev, norm_calls>>

input_vars == <<leed_df, nyc_df, fuzzy_address_threshold, fuzzy_name_threshold,
                min_confidence, use_manual_mapping>>

index_vars == <<nyc_by_bbl, nyc_by_bin, nyc_by_addr_zip, nyc_addr_list>>

loop_vars == <<leed_pos, matches, unmatched_leed>>

manual_vars == <<manual_file, manual>>

pipe_vars == <<input_vars, index_vars, loop_vars, matched_df, review_queue,
               manual_vars, master, pc, error>>

table_vars == <<bench_df, ll97_df>>

rescale_vars == <<tier, tier_score, tier_confidence>>

runner_vars == <<skip_download, run_pc, called, raised, step_times, run_log>>

vars == <<norm_vars, pipe_vars, table_vars, rescale_vars, runner_vars>>

(***************************************************************************)
(* Characters                                                              *)
(***************************************************************************)
LowerLetters == <<"a","b","c","d","e","f","g","h","i","j","k","l","m",
                  "n","o","p","q","r","s","t","u","v","w","x","y","z">>

UpperLetters == <<"A","B","C","D","E","F","G","H","I","J","K","L","M",
                  "N","O","P","Q","R","S","T","U","V","W","X","Y","Z">>

\* U+017F LATIN SMALL LETTER LONG S: a lowercase letter whose str.upper() is
\* "S" and whose str.lower() is itself.
LONG_S == "<U+017F>"

Digit == {"0","1","2","3","4","5","6","7","8","9"}

LowerSet == {LowerLetters[i] : i \in 1..26}

UpperSet == {UpperLetters[i] : i \in 1..26}

\* \d of the re module
IsDigit(c) == c \in Digit

\* \s of the re module, str.strip() and str.split()
IsSpace(c) == c = " "

\* \w of the re module
IsWord(c) == c \in LowerSet \cup UpperSet \cup Digit \cup {"_", LONG_S}

\* str.upper() on one character
UpperCh(c) ==
  IF c \in LowerSet THEN UpperLetters[CHOOSE i \in 1..26 : LowerLetters[i] = c]
  ELSE IF c = LONG_S THEN "S"
  ELSE c

\* str.lower() on one character
LowerCh(c) ==
  IF c \in UpperSet THEN LowerLetters[CHOOSE i \in 1..26 : UpperLetters[i] = c]
  ELSE c

Upper(s) == [i \in 1..Len(s) |-> UpperCh(s[i])]

Lower(s) == [i \in 1..Len(s) |-> LowerCh(s[i])]

RECURSIVE Str(_)
Str(s) == IF s = <<>> THEN "" ELSE Head(s) \o Str(Tail(s))

(***************************************************************************)
(* str and re helpers                                                      *)
(***************************************************************************)
RECURSIVE LStrip(_)
LStrip(s) == IF s # <<>> /\ IsSpace(Head(s)) THEN LStrip(Tail(s)) ELSE s

RECURSIVE RStrip(_)
RStrip(s) ==
  IF s # <<>> /\ IsSpace(s[Len(s)]) THEN RStrip(SubSeq(s, 1, Len(s) - 1)) ELSE s

\* str.strip()
Strip(s) == RStrip(LStrip(s))

\* s.split(c)[0]: the part of s before the first c
RECURSIVE SplitFirst(_, _)
SplitFirst(s, c) ==
  IF s = <<>> \/ Head(s) = c THEN <<>> ELSE <<Head(s)>> \o SplitFirst(Tail(s), c)

\* re.sub(r"\D", "", s)
RemoveNonDigits(s) == SelectSeq(s, IsDigit)

\* str.zfill(width)
RECURSIVE ZFill(_, _)
ZFill(s, width) == IF Len(s) >= width THEN s ELSE ZFill(<<"0">> \o s, width)

\* re.sub(r"\s+", " ", s)
RECURSIVE CollapseSpaces(_)
CollapseSpaces(s) ==
  IF s = <<>> THEN <<>>
  ELSE IF IsSpace(Head(s))
       THEN <<" ">> \o CollapseSpaces(LStrip(s))
       ELSE <<Head(s)>> \o CollapseSpaces(Tail(s))

\* \b at position p of s (between s[p-1] and s[p])
WordBoundary(s, p) ==
  LET before == p > 1 /\ p - 1 <= Len(s) /\ IsWord(s[p - 1])
      after  == p >= 1 /\ p <= Len(s) /\ IsWord(s[p])
  IN  before # after

\* whether the literal w occurs in s at position p
StartsAt(s, p, w) ==
  /\ p + Len(w) - 1 <= Len(s)
  /\ \A k \in 1..Len(w) : s[p + k - 1] = w[k]

\* length of the greedy match of \d* at position p
RECURSIVE DigitRun(_, _)
DigitRun(s, p) == IF p <= Len(s) /\ IsDigit(s[p]) THEN 1 + DigitRun(s, p + 1) ELSE 0

\* length of the greedy match of \s* at position p
RECURSIVE SpaceRun(_, _)
SpaceRun(s, p) == IF p <= Len(s) /\ IsSpace(s[p]) THEN 1 + SpaceRun(s, p + 1) ELSE 0

\* length of the greedy match of [\w\-]* at position p
RECURSIVE WordHyphenRun(_, _)
WordHyphenRun(s, p) ==
  IF p <= Len(s) /\ (IsWord(s[p]) \/ s[p] = "-")
  THEN 1 + WordHyphenRun(s, p + 1) ELSE 0

(***************************************************************************)
(* normalize.py: borough, postal code, parcel ID, building ID, name        *)
(***************************************************************************)
BOROUGH_MAP ==
  "manhattan" :> <<"M","A","N","H","A","T","T","A","N">> @@
  "new york" :> <<"M","A","N","H","A","T","T","A","N">> @@
  "ny" :> <<"M","A","N","H","A","T","T","A","N">> @@
  "bronx" :> <<"B","R","O","N","X">> @@
  "the bronx" :> <<"B","R","O","N","X">> @@
  "bx" :> <<"B","R","O","N","X">> @@
  "brooklyn" :> <<"B","R","O","O","K","L","Y","N">> @@
  "bk" :> <<"B","R","O","O","K","L","Y","N">> @@
  "kings" :> <<"B","R","O","O","K","L","Y","N">> @@
  "queens" :> <<"Q","U","E","E","N","S">> @@
  "qn" :> <<"Q","U","E","E","N","S">> @@
  "staten island" :> <<"S","T","A","T","E","N"," ","I","S","L","A","N","D">> @@
  "si" :> <<"S","T","A","T","E","N"," ","I","S","L","A","N","D">> @@
  "richmond" :> <<"S","T","A","T","E","N"," ","I","S","L","A","N","D">>

normalize_borough(raw) ==
  IF Strip(raw) = <<>> THEN <<>>
  ELSE LET key == Str(Lower(Strip(raw)))
       IN  IF key \in DOMAIN BOROUGH_MAP THEN BOROUGH_MAP[key] ELSE Upper(Strip(raw))

\* normalize_zip padding an empty digit string as well
normalize_zip_padempty(raw) ==
  IF raw = <<>> THEN <<>>
  ELSE LET z == RemoveNonDigits(SplitFirst(SplitFirst(Strip(raw), "-"), "."))
       IN  IF Len(z) = 5 THEN z
           ELSE IF Len(z) > 5 THEN SubSeq(z, 1, 5)
           ELSE ZFill(z, 5)

normalize_zip(raw) ==
  IF raw = <<>> THEN <<>>
  ELSE LET z == RemoveNonDigits(SplitFirst(SplitFirst(Strip(raw), "-"), "."))
       IN  IF Len(z) = 5 THEN z
           ELSE IF Len(z) > 5 THEN SubSeq(z, 1, 5)
           ELSE IF z # <<>> THEN ZFill(z, 5) ELSE <<>>

NAME_PUNCT == {".", ",", ";", ":", "!", "?", "(", ")", "\"", "'", "-", "/"}

NAME_FILLERS == << <<"T","H","E">>, <<"B","U","I","L","D","I","N","G">>,
                   <<"B","L","D","G">>, <<"A","T">>, <<"O","F">> >>

\* re.sub(rf"\b{w}\b", "", s), from position p on
RECURSIVE RemoveWordFrom(_, _, _)
RemoveWordFrom(s, p, w) ==
  IF p > Len(s) THEN <<>>
  ELSE IF StartsAt(s, p, w) /\ WordBoundary(s, p) /\ WordBoundary(s, p + Len(w))
       THEN RemoveWordFrom(s, p + Len(w), w)
       ELSE <<s[p]>> \o RemoveWordFrom(s, p + 1, w)

\* the loop over the filler words, from the k-th filler on
RECURSIVE RemoveFillers(_, _)
RemoveFillers(s, k) ==
  IF k > Len(NAME_FILLERS) THEN s
  ELSE RemoveFillers(RemoveWordFrom(s, 1, NAME_FILLERS[k]), k + 1)

normalize_building_name(raw) ==
  IF Strip(raw) = <<>> THEN <<>>
  ELSE LET name0 == Upper(Strip(raw))
           name1 == [i \in 1..Len(name0) |->
                       IF name0[i] \in NAME_PUNCT THEN " " ELSE name0[i]]
       IN  Strip(CollapseSpaces(RemoveFillers(name1, 1)))

normalize_bbl(raw) ==
  IF raw = <<>> THEN <<>> ELSE RemoveNonDigits(Strip(raw))

normalize_bin(raw) ==
  IF raw = <<>> THEN <<>> ELSE RemoveNonDigits(SplitFirst(Strip(raw), "."))

(***************************************************************************)
(* normalize.py: address                                                   *)
(***************************************************************************)
SUFFIX_MAP ==
  "avenue" :> <<"A","V","E">> @@
  "ave" :> <<"A","V","E">> @@
  "av" :> <<"A","V","E">> @@
  "boulevard" :> <<"B","L","V","D">> @@
  "blvd" :> <<"B","L","V","D">> @@
  "circle" :> <<"C","I","R">> @@
  "cir" :> <<"C","I","R">> @@
  "court" :> <<"C","T">> @@
  "ct" :> <<"C","T">> @@
  "drive" :> <<"D","R">> @@
  "dr" :> <<"D","R">> @@
  "expressway" :> <<"E","X","P","Y">> @@
  "expy" :> <<"E","X","P","Y">> @@
  "highway" :> <<"H","W","Y">> @@
  "hwy" :> <<"H","W","Y">> @@
  "lane" :> <<"L","N">> @@
  "ln" :> <<"L","N">> @@
  "parkway" :> <<"P","K","W","Y">> @@
  "pkwy" :> <<"P","K","W","Y">> @@
  "place" :> <<"P","L">> @@
  "pl" :> <<"P","L">> @@
  "plaza" :> <<"P","L","Z">> @@
  "plz" :> <<"P","L","Z">> @@
  "road" :> <<"R","D">> @@
  "rd" :> <<"R","D">> @@
  "square" :> <<"S","Q">> @@
  "sq" :> <<"S","Q">> @@
  "street" :> <<"S","T">> @@
  "st" :> <<"S","T">> @@
  "str" :> <<"S","T">> @@
  "terrace" :> <<"T","E","R">> @@
  "ter" :> <<"T","E","R">> @@
  "turnpike" :> <<"T","P","K","E">> @@
  "tpke" :> <<"T","P","K","E">> @@
  "way" :> <<"W","A","Y">>

DIRECTION_MAP ==
  "north" :> <<"N">> @@
  "south" :> <<"S">> @@
  "east" :> <<"E">> @@
  "west" :> <<"W">> @@
  "northeast" :> <<"N","E">> @@
  "northwest" :> <<"N","W">> @@
  "southeast" :> <<"S","E">> @@
  "southwest" :> <<"S","W">> @@
  "n" :> <<"N">> @@
  "s" :> <<"S">> @@
  "e" :> <<"E">> @@
  "w" :> <<"W">> @@
  "ne" :> <<"N","E">> @@
  "nw" :> <<"N","W">> @@
  "se" :> <<"S","E">> @@
  "sw" :> <<"S","W">>

ADDR_PUNCT == {".", ",", ";", ":", "!", "?", "(", ")", "\"", "'"}

\* the alternatives of _UNIT_RE, in the order of the pattern
UNIT_WORDS == << <<"S","U","I","T","E">>,
                 <<"S","T","E">>,
                 <<"U","N","I","T">>,
                 <<"A","P","T">>,
                 <<"A","P","A","R","T","M","E","N","T">>,
                 <<"F","L","O","O","R">>,
                 <<"F","L">>,
                 <<"R","M">>,
                 <<"R","O","O","M">>,
                 <<"#">> >>

\* the alternatives of _ORDINAL_RE
ORDINAL_SUFFIXES == { <<"S","T">>, <<"N","D">>, <<"R","D">>, <<"T","H">> }

\* re.IGNORECASE comparison of s at p with the upper-case literal w
StartsAtIgnoreCase(s, p, w) ==
  /\ p + Len(w) - 1 <= Len(s)
  /\ \A k \in 1..Len(w) : UpperCh(s[p + k - 1]) = w[k]

\* length of the match of _UNIT_RE at position p, 0 if none:
\* \b(suite|ste|...|#)\s*[\w\-]*
UnitMatchLen(s, p) ==
  LET alts == {k \in 1..Len(UNIT_WORDS) : StartsAtIgnoreCase(s, p, UNIT_WORDS[k])}
  IN  IF ~WordBoundary(s, p) \/ alts = {} THEN 0
      ELSE LET k  == CHOOSE a \in alts : \A b \in alts : a <= b
               kw == Len(UNIT_WORDS[k])
               sp == SpaceRun(s, p + kw)
           IN  kw + sp + WordHyphenRun(s, p + kw + sp)

\* _UNIT_RE.sub("", s), from position p on
RECURSIVE UnitSubFrom(_, _)
UnitSubFrom(s, p) ==
  IF p > Len(s) THEN <<>>
  ELSE LET m == UnitMatchLen(s, p)
       IN  IF m > 0 THEN UnitSubFrom(s, p + m)
           ELSE <<s[p]>> \o UnitSubFrom(s, p + 1)

\* length of the match of _ORDINAL_RE at position p, 0 if none:
\* (\d+)\s*(st|nd|rd|th)\b
OrdinalMatchLen(s, p) ==
  LET d  == DigitRun(s, p)
      sp == SpaceRun(s, p + d)
      q  == p + d + sp
  IN  IF d > 0
         /\ (\E w \in ORDINAL_SUFFIXES : StartsAtIgnoreCase(s, q, w))
         /\ WordBoundary(s, q + 2)
      THEN d + sp + 2 ELSE 0

\* _ORDINAL_RE.sub(r"\1", s), from position p on
RECURSIVE OrdinalSubFrom(_, _)
OrdinalSubFrom(s, p) ==
  IF p > Len(s) THEN <<>>
  ELSE LET m == OrdinalMatchLen(s, p)
       IN  IF m > 0
           THEN SubSeq(s, p, p + DigitRun(s, p) - 1) \o OrdinalSubFrom(s, p + m)
           ELSE <<s[p]>> \o OrdinalSubFrom(s, p + 1)

\* str.split(): the whitespace-separated words of s
RECURSIVE Split(_)
Split(s) ==
  LET t == LStrip(s)
  IN  IF t = <<>> THEN <<>>
      ELSE LET w == SplitFirst(t, " ")
           IN  <<w>> \o Split(SubSeq(t, Len(w) + 1, Len(t)))

\* " ".join(words)
RECURSIVE Join(_)
Join(words) ==
  IF words = <<>> THEN <<>>
  ELSE IF Len(words) = 1 THEN words[1]
  ELSE words[1] \o <<" ">> \o Join(Tail(words))

(***************************************************************************)
(* usaddress.tag is a trained tagger of an external library.  It is        *)
(* modelled by the labelling it gives street addresses of the shape        *)
(*   [number] [direction] name... [suffix] [direction]                     *)
(* over the words of SUFFIX_MAP and DIRECTION_MAP: every token gets one of *)
(* the five labels normalize_address reads, consecutive tokens of one      *)
(* label are joined by a space, and a label that comes back after another  *)
(* label raises RepeatedLabelError.                                        *)
(***************************************************************************)
IsNumberTok(t) ==
  /\ \E i \in 1..Len(t) : IsDigit(t[i])
  /\ \A i \in 1..Len(t) : IsDigit(t[i]) \/ t[i] = "-"

IsDirTok(t) == Str(Lower(t)) \in DOMAIN DIRECTION_MAP

IsSufTok(t) == Str(Lower(t)) \in DOMAIN SUFFIX_MAP

\* the label of the i-th token of toks
TagLabel(toks, i) ==
  LET n        == Len(toks)
      numFirst == n >= 1 /\ IsNumberTok(toks[1])
      first    == IF numFirst THEN 2 ELSE 1
      preDir   == first < n /\ IsDirTok(toks[first])
      nameFrom == IF preDir THEN first + 1 ELSE first
  IN  IF i = 1 /\ numFirst THEN "AddressNumber"
      ELSE IF i = first /\ preDir THEN "StreetNamePreDirectional"
      ELSE IF i = n /\ i > nameFrom /\ IsDirTok(toks[i]) THEN "StreetNamePostDirectional"
      ELSE IF i > nameFrom /\ IsSufTok(toks[i]) THEN "StreetNamePostType"
      ELSE "StreetName"

\* usaddress.RepeatedLabelError: a label occurs in two separate runs
RepeatedLabel(toks) ==
  \E i, j, k \in 1..Len(toks) :
    /\ i < j /\ j < k
    /\ TagLabel(toks, i) = TagLabel(toks, k)
    /\ TagLabel(toks, i) # TagLabel(toks, j)

\* parsed.get(label, ""): the tokens of that label joined by a space
RECURSIVE TokensOf(_, _, _)
TokensOf(toks, label, i) ==
  IF i > Len(toks) THEN <<>>
  ELSE IF TagLabel(toks, i) = label
       THEN <<toks[i]>> \o TokensOf(toks, label, i + 1)
       ELSE TokensOf(toks, label, i + 1)

Parsed(toks, label) == Join(TokensOf(toks, label, 1))

\* _fallback_normalize
_fallback_normalize(addr) ==
  LET words == Split(addr)
      norm(w) == LET wl == Str(Lower(w))
                 IN  IF wl \in DOMAIN SUFFIX_MAP THEN SUFFIX_MAP[wl]
                     ELSE IF wl \in DOMAIN DIRECTION_MAP THEN DIRECTION_MAP[wl]
                     ELSE w
  IN  Join([i \in 1..Len(words) |-> norm(words[i])])

\* the steps of normalize_address before parsing
CleanAddress(raw) ==
  LET addr0 == Upper(Strip(raw))
      addr1 == SelectSeq(addr0, LAMBDA c : c \notin ADDR_PUNCT)
      addr2 == UnitSubFrom(addr1, 1)
      addr3 == OrdinalSubFrom(addr2, 1)
  IN  Strip(CollapseSpaces(addr3))

COMPONENTS == <<"AddressNumber", "StreetNamePreDirectional", "StreetName",
                "StreetNamePostType", "StreetNamePostDirectional">>

normalize_address(raw) ==
  IF Strip(raw) = <<>> THEN <<>>
  ELSE LET addr == CleanAddress(raw)
           toks == Split(addr)
           val(c) ==
             LET v  == Parsed(toks, c)
                 vl == Str(Lower(v))
             IN  IF c = "StreetNamePostType" /\ vl \in DOMAIN SUFFIX_MAP
                   THEN SUFFIX_MAP[vl]
                 ELSE IF c \in {"StreetNamePreDirectional", "StreetNamePostDirectional"}
                         /\ vl \in DOMAIN DIRECTION_MAP
                   THEN DIRECTION_MAP[vl]
                 ELSE Strip(v)
           parts == SelectSeq([k \in 1..Len(COMPONENTS) |-> val(COMPONENTS[k])],
                              LAMBDA v : v # <<>>)
       IN  IF RepeatedLabel(toks) THEN _fallback_normalize(addr)
           ELSE IF parts # <<>> THEN Join(parts) ELSE addr

(***************************************************************************)
(* Bounded inputs of the normalizers                                       *)
(***************************************************************************)
MaxRawLen == 5

MaxBoroughLen == 3

MaxNameParts == 3

MaxAddrTokens == 4

MaxCalls == 2

\* all sequences over S of length at most n
SeqsUpTo(S, n) == UNION {[1..k -> S] : k \in 0..n}

\* the concatenation of a sequence of strings
RECURSIVE Concat(_)
Concat(parts) == IF parts = <<>> THEN <<>> ELSE Head(parts) \o Concat(Tail(parts))

\* raw postal codes, parcel IDs and building IDs
IdChars == {"0", "7", "-", ".", " "}

IdExamples == { <<"1","0","2","3">>,
                <<"1","0","0","2","3","-","1","2","3","4">>,
                <<"1","0","0","2","3",".","0">>,
                <<"1","0","0","1","2","3","4","0","0","5">>,
                <<"1","2","3","4","5","6">>,
                <<"x","1","0","2","3">> }

IdInputs == SeqsUpTo(IdChars, MaxRawLen) \cup IdExamples

\* raw borough / city names
BoroughChars == {"s", "i", "S", "I", LONG_S, " ", "n", "y"}

BoroughExamples == { <<"M","a","n","h","a","t","t","a","n">>,
                     <<"N","e","w"," ","Y","o","r","k">>,
                     <<"t","h","e"," ","b","r","o","n","x">>,
                     <<"K","I","N","G","S">>,
                     <<"S","t","a","t","e","n"," ","I","s","l","a","n","d">>,
                     <<"Y","o","n","k","e","r","s">> }

BoroughInputs == SeqsUpTo(BoroughChars, MaxBoroughLen) \cup BoroughExamples

\* raw building names: words and separators in any order
NameParts == { <<"T","H","E">>, <<"T","h","e">>, <<"A","T">>, <<"O","F">>, <<"A","C","M","E">>, <<"T">>, <<" ">>, <<"-">>, <<"&">> }

NameExamples == { <<"T","h","e"," ","A","c","m","e"," ","T","o","w","e","r"," ","B","u","i","l","d","i","n","g">>,
                  <<"A","C","M","E"," ","T","O","W","E","R">>,
                  <<"A","T","&","T"," ","B","l","d","g",".">> }

NameInputs == {Concat(ps) : ps \in SeqsUpTo(NameParts, MaxNameParts)} \cup NameExamples

\* raw addresses: words separated by single spaces
AddrWords == { <<"1","2","3">>, <<"W","e","s","t">>, <<"W">>, <<"4","2">>, <<"4","2","n","d">>, <<"S","t">>, <<"S","T","R","E","E","T">>, <<"F","l","a","t","b","u","s","h">>, <<"S","u","i","t","e">> }

AddrExamples == { <<"1","2","3"," ","W","E","S","T"," ","4","2"," ","S","T","R","E","E","T">>,
                  <<"1","2","3"," ","W","e","s","t"," ","4","2","n","d"," ","S","t",","," ","S","u","i","t","e"," ","5","0","0">>,
                  <<"1"," ","F","l","a","t","b","u","s","h"," ","A","v","e"," ","F","l"," ","2">> }

AddrInputs == {Join(ws) : ws \in SeqsUpTo(AddrWords, MaxAddrTokens)} \cup AddrExamples

\* the pipeline variables while only the normalizers run
PipeIdle ==
  /\ leed_df = <<>>
  /\ nyc_df = <<>>
  /\ fuzzy_address_threshold = 80
  /\ fuzzy_name_threshold = 75
  /\ min_confidence = 50
  /\ use_manual_mapping = FALSE
  /\ nyc_by_bbl = <<>>
  /\ nyc_by_bin = <<>>
  /\ nyc_by_addr_zip = <<>>
  /\ nyc_addr_list = <<>>
  /\ leed_pos = 0
  /\ matches = <<>>
  /\ unmatched_leed = <<>>
  /\ matched_df = [columns |-> {}, rows |-> <<>>]
  /\ review_queue = [columns |-> {}, rows |-> <<>>]
  /\ manual_file = "unread"
  /\ manual = [columns |-> {}, rows |-> <<>>]
  /\ master = [columns |-> {}, rows |-> <<>>]
  /\ pc = "normalize"
  /\ error = ""

\* the benchmarking and LL97 tables before the cleaned files are read
TablesUnread ==
  /\ bench_df = [columns |-> {}, rows |-> <<>>]
  /\ ll97_df = [columns |-> {}, rows |-> <<>>]

\* no fuzzy tier under way
RescaleIdle ==
  /\ tier = "none"
  /\ tier_score = 0
  /\ tier_confidence = 0

\* the runner not started
RunnerIdle ==
  /\ skip_download = FALSE
  /\ run_pc = "idle"
  /\ called = <<>>
  /\ raised = {}
  /\ step_times = <<>>
  /\ run_log = FALSE

(***************************************************************************)
(* The normalizers as operations: each call replaces the current value by  *)
(* its normal form; norm_prev keeps the value before the call.             *)
(***************************************************************************)
NormInit(fns) ==
  /\ norm_fn \in fns
  /\ norm_raw \in CASE norm_fn = "address" -> AddrInputs
                    [] norm_fn = "borough" -> BoroughInputs
                    [] norm_fn = "building_name" -> NameInputs
                    [] OTHER -> IdInputs
  /\ norm_out = norm_raw
  /\ norm_prev = norm_raw
  /\ norm_calls = 0
  /\ PipeIdle
  /\ TablesUnread
  /\ RescaleIdle
  /\ RunnerIdle

NormCall(fn, result) ==
  /\ norm_fn = fn
  /\ norm_calls < MaxCalls
  /\ norm_prev' = norm_out
  /\ norm_out' = result
  /\ norm_calls' = norm_calls + 1
  /\ UNCHANGED <<norm_fn, norm_raw, pipe_vars, table_vars, rescale_vars, runner_vars>>

NormalizeAddress == NormCall("address", normalize_address(norm_out))

NormalizeZip == NormCall("zip", normalize_zip(norm_out))

NormalizeBbl == NormCall("bbl", normalize_bbl(norm_out))

NormalizeBin == NormCall("bin", normalize_bin(norm_out))

NormalizeBorough == NormCall("borough", normalize_borough(norm_out))

NormalizeBuildingName == NormCall("building_name", normalize_building_name(norm_out))

InitAddr == NormInit({"address"})

NextAddr == NormalizeAddress

SpecAddr == InitAddr /\ [][NextAddr]_vars

InitNorm == NormInit({"zip", "bbl", "bin", "borough", "building_name"})

NextNorm ==
  \/ NormalizeZip
  \/ NormalizeBbl
  \/ NormalizeBin
  \/ NormalizeBorough
  \/ NormalizeBuildingName

SpecNorm == InitNorm /\ [][NextNorm]_vars

(***************************************************************************)
(* Properties of the normalizers                                           *)
(***************************************************************************)

\* C1: normalize_address is idempotent: normalizing a normalized address
\* (the second call) returns it unchanged.
C1_AddressIdempotent ==
  (norm_fn = "address" /\ norm_calls = 2) => norm_out = norm_prev

\* C2: normalize_zip, normalize_bbl, normalize_bin, normalize_borough and
\* normalize_building_name are idempotent: the second call returns the
\* output of the first unchanged.
C2_FieldNormalizersIdempotent ==
  (norm_fn \in {"zip", "bbl", "bin", "borough", "building_name"} /\ norm_calls = 2)
    => norm_out = norm_prev

\* the digits of s that stand before the first hyphen or decimal point
DigitsBeforeSeparator(s) ==
  LET seps == {i \in 1..Len(s) : s[i] \in {"-", "."}}
      cut  == IF seps = {} THEN Len(s) + 1
              ELSE CHOOSE i \in seps : \A j \in seps : i <= j
  IN  SelectSeq(SubSeq(s, 1, cut - 1), IsDigit)

\* C3: normalize_zip returns "" or exactly 5 digits: the digits before the
\* first hyphen or decimal point, left-padded with zeros when fewer than 5,
\* cut to the first 5 when more, and "" (not "00000") when there are none.
C3_ZipFiveDigitsOrEmpty ==
  (norm_fn = "zip" /\ norm_calls >= 1) =>
    LET d == DigitsBeforeSeparator(norm_prev)
    IN  /\ \/ norm_out = <<>>
           \/ Len(norm_out) = 5 /\ \A i \in 1..5 : norm_out[i] \in Digit
        /\ d = <<>> => norm_out = <<>>
        /\ (d # <<>> /\ Len(d) < 5) =>
             /\ Len(norm_out) = 5
             /\ SubSeq(norm_out, 6 - Len(d), 5) = d
             /\ \A i \in 1..(5 - Len(d)) : norm_out[i] = "0"
        /\ Len(d) >= 5 => norm_out = SubSeq(d, 1, 5)

\* C3 witness: "10023-1234" was cut to "10023", and normalizing that again
\* kept the five digits.
C3_Witness ==
  /\ norm_fn = "zip"
  /\ norm_calls = 2
  /\ norm_raw = <<"1","0","0","2","3","-","1","2","3","4">>
  /\ norm_prev = <<"1","0","0","2","3">>
  /\ norm_out = norm_prev

(***************************************************************************)
(* The matching pipeline: match_buildings, apply_manual_mapping and        *)
(* build_master_table, called in the order of scripts/06_match_buildings.  *)
(* The frames hold normalized values, so the fields are plain strings.     *)
(* A frame is a sequence of rows; the row at position k has index label    *)
(* k - 1, as the RangeIndex of a frame read from a CSV file.               *)
(***************************************************************************)

\* best_match before any strategy has matched
None == -1

\* the nyc_index of a row that has none (a missing value)
NaN == -2

\* the missing value of a text column
NA == "nan"

\* bounds of the pipeline model
MaxLeed == 2

MaxNyc == 2

MaxDecisions == 2

\* _clean: the text of a value, with the missing values as the empty string
_clean(val) ==
  IF val \in {"", "nan", "NaN", "NAN", "none", "None", "NONE"} THEN "" ELSE val

\* rapidfuzz.fuzz.token_sort_ratio on the strings of the pools below:
\* 200 * LCS / (len1 + len2) of the two strings with their tokens sorted
RATIO ==
  <<"123 W 42 ST", "W 42 ST 123">> :> 100 @@
  <<"123 W 42 ST", "1 W 42 ST">> :> 90 @@
  <<"123 W 42 ST", "12 E 9 ST">> :> 60 @@
  <<"123 W 42 ST", "9 MAIN ST">> :> 40 @@
  <<"W 42 ST 123", "1 W 42 ST">> :> 90 @@
  <<"W 42 ST 123", "12 E 9 ST">> :> 60 @@
  <<"W 42 ST 123", "9 MAIN ST">> :> 40 @@
  <<"ACME TOWER", "ACME POWER">> :> 90

token_sort_ratio(s1, s2) ==
  IF s1 = s2 THEN 100
  ELSE IF <<s1, s2>> \in DOMAIN RATIO THEN RATIO[<<s1, s2>>]
  ELSE RATIO[<<s2, s1>>]

\* the source-A (LEED) records of the model, without their source_id
LeedShape(bbl, bin, addr, zip, name, boro) ==
  [bbl_norm |-> bbl, bin_norm |-> bin, address_norm |-> addr, zip_norm |-> zip,
   building_name_norm |-> name, borough_norm |-> boro,
   building_name_raw |-> name, address_raw |-> addr, zip |-> zip,
   leed_level |-> "Gold", source_name |-> "LEED"]

LeedShapes ==
  { LeedShape("1001234005", "1012345", "123 W 42 ST", "10036", "ACME TOWER", "MANHATTAN"),
    LeedShape(NA, NA, "123 W 42 ST", "10036", "ACME TOWER", "MANHATTAN"),
    LeedShape(NA, NA, "123 W 42 ST", "", "ACME TOWER", "MANHATTAN"),
    LeedShape(NA, NA, "123 W 42 ST", NA, "", ""),
    LeedShape(NA, NA, "W 42 ST 123", "10036", "", "MANHATTAN"),
    LeedShape(NA, NA, "", "10036", "ACME TOWER", "MANHATTAN"),
    LeedShape("", "", "", "", "", "") }

\* the source-B (NYC energy grades) records of the model, without source_id
NycShape(bbl, bin, addr, zip, name, boro, grade) ==
  [bbl_norm |-> bbl, bin_norm |-> bin, address_norm |-> addr, zip_norm |-> zip,
   building_name_norm |-> name, borough_norm |-> boro,
   bbl |-> bbl, address_raw |-> addr, energy_grade |-> grade]

NycShapes ==
  { NycShape("1001234005", NA, "12 E 9 ST", "11201", NA, "BROOKLYN", "A"),
    NycShape(NA, "1012345", NA, NA, NA, NA, "B"),
    NycShape("3000010001", NA, "123 W 42 ST", "10036", "ACME TOWER", "MANHATTAN", "C"),
    NycShape(NA, NA, "123 W 42 ST", "11201", NA, "BROOKLYN", "D"),
    NycShape(NA, NA, "123 W 42 ST", NA, NA, "MANHATTAN", "A"),
    NycShape(NA, NA, "1 W 42 ST", "10036", "ACME POWER", "MANHATTAN", "B"),
    NycShape(NA, NA, "W 42 ST 123", "11201", NA, "MANHATTAN", "C"),
    NycShape(NA, NA, NA, "10036", "ACME TOWER", "MANHATTAN", "D"),
    NycShape(NA, NA, "9 MAIN ST", "10036", "ACME TOWER", NA, "F") }

\* source_id as the cleaning step generates it: a prefix and the record's key
WithSourceId(shapes, prefix) ==
  [k \in DOMAIN shapes |->
     shapes[k] @@ [source_id |-> prefix \o ToString(k)]]

LeedFrames(shapes) ==
  { WithSourceId(f, "LEED_") : f \in UNION { [1..n -> shapes] : n \in 0..MaxLeed } }

NycFrames(shapes) ==
  { WithSourceId(f, "NYC_") : f \in UNION { [1..n -> shapes] : n \in 0..MaxNyc } }

\* the records of the runs with manual mapping: enough for every strategy to
\* match and for a record to match nothing
OverrideLeedShapes ==
  { LeedShape("1001234005", "1012345", "123 W 42 ST", "10036", "ACME TOWER", "MANHATTAN"),
    LeedShape(NA, NA, "W 42 ST 123", "10036", "", "MANHATTAN"),
    LeedShape("", "", "", "", "", "") }

OverrideNycShapes ==
  { NycShape("1001234005", NA, "12 E 9 ST", "11201", NA, "BROOKLYN", "A"),
    NycShape(NA, "1012345", NA, NA, NA, NA, "B"),
    NycShape(NA, NA, "123 W 42 ST", "11201", NA, "BROOKLYN", "D"),
    NycShape(NA, NA, "123 W 42 ST", NA, NA, "MANHATTAN", "A"),
    NycShape("3000010001", NA, "123 W 42 ST", "10036", "ACME TOWER", "MANHATTAN", "C"),
    NycShape(NA, NA, "9 MAIN ST", "10036", "ACME TOWER", NA, "F") }

\* fuzzy_address_threshold, fuzzy_name_threshold, min_confidence: the
\* defaults of the configuration and two other settings
Settings == { <<80, 75, 50>>, <<90, 90, 85>>, <<0, 99, 95>> }

\* a frame without columns, as pd.DataFrame() and pd.DataFrame([])
EmptyFrame == [columns |-> {}, rows |-> <<>>]

\* the state before match_buildings is called
MatchInit(leed_shapes, nyc_shapes, settings, manual_mapping) ==
  /\ leed_df \in LeedFrames(leed_shapes)
  /\ nyc_df \in NycFrames(nyc_shapes)
  /\ \E s \in settings :
       /\ fuzzy_address_threshold = s[1]
       /\ fuzzy_name_threshold = s[2]
       /\ min_confidence = s[3]
  /\ use_manual_mapping = manual_mapping
  /\ nyc_by_bbl = <<>>
  /\ nyc_by_bin = <<>>
  /\ nyc_by_addr_zip = <<>>
  /\ nyc_addr_list = <<>>
  /\ leed_pos = 0
  /\ matches = <<>>
  /\ unmatched_leed = <<>>
  /\ matched_df = EmptyFrame
  /\ review_queue = EmptyFrame
  /\ manual_file = "unread"
  /\ manual = [columns |-> {}, rows |-> <<>>]
  /\ master = EmptyFrame
  /\ pc = "index"
  /\ error = ""
  /\ norm_fn = "none"
  /\ norm_raw = <<>>
  /\ norm_out = <<>>
  /\ norm_prev = <<>>
  /\ norm_calls = 0
  /\ TablesUnread
  /\ RescaleIdle
  /\ RunnerIdle

(***************************************************************************)
(* match_buildings: the lookup indexes on the NYC side                     *)
(***************************************************************************)

Max(a, b) == IF a >= b THEN a ELSE b

Min(a, b) == IF a <= b THEN a ELSE b

RECURSIVE Ascending(_)
\* the index labels of a set in the order iterrows visits them
Ascending(S) ==
  IF S = {} THEN <<>>
  ELSE LET m == CHOOSE x \in S : \A y \in S : x <= y
       IN <<m>> \o Ascending(S \ {m})

\* a dict that also lists the rows of an empty key, under ""
GroupByKey_keeps_empty(keys) ==
  [key \in {keys[k] : k \in DOMAIN keys} |->
     Ascending({k - 1 : k \in {j \in DOMAIN keys : keys[j] = key}})]

\* the dict built by setdefault(key, []).append(idx) over the rows whose key
\* is not empty; keys[k] is the key of the row with index label k - 1
GroupByKey(keys) ==
  [key \in {keys[k] : k \in DOMAIN keys} \ {""} |->
     Ascending({k - 1 : k \in {j \in DOMAIN keys : keys[j] = key}})]

AddrZipKey(row) ==
  IF _clean(row.address_norm) # "" /\ _clean(row.zip_norm) # ""
  THEN _clean(row.address_norm) \o "|" \o _clean(row.zip_norm)
  ELSE ""

RECURSIVE AddrList(_, _)
\* nyc_addr_list: (idx, addr, zip, name) of the rows that have an address
AddrList(frame, k) ==
  IF k > Len(frame) THEN <<>>
  ELSE LET row == frame[k]
           entry == [idx |-> k - 1, addr |-> _clean(row.address_norm),
                     zip |-> _clean(row.zip_norm),
                     name |-> _clean(row.building_name_norm)]
       IN (IF entry.addr # "" THEN <<entry>> ELSE <<>>) \o AddrList(frame, k + 1)

BuildIndexes ==
  /\ pc = "index"
  /\ nyc_by_bbl' = GroupByKey([k \in DOMAIN nyc_df |-> _clean(nyc_df[k].bbl_norm)])
  /\ nyc_by_bin' = GroupByKey([k \in DOMAIN nyc_df |-> _clean(nyc_df[k].bin_norm)])
  /\ nyc_by_addr_zip' = GroupByKey([k \in DOMAIN nyc_df |-> AddrZipKey(nyc_df[k])])
  /\ nyc_addr_list' = AddrList(nyc_df, 1)
  /\ pc' = "match"
  /\ UNCHANGED <<rescale_vars, runner_vars, table_vars, norm_vars,
                 input_vars, loop_vars, matched_df, review_queue,
                 manual_vars, master, error>>

\* nyc_names: the entries of nyc_addr_list that have a name
nyc_names == SelectSeq(nyc_addr_list, LAMBDA e : e.name # "")

\* nyc_df.loc[idx]
NycRow(idx) == nyc_df[idx + 1]

(***************************************************************************)
(* match_buildings: the strategies, each from the best match so far        *)
(***************************************************************************)

NoBest ==
  [best_match |-> None, best_confidence |-> 0, best_method |-> "", best_notes |-> ""]

Best(m, c, method, notes) ==
  [best_match |-> m, best_confidence |-> c, best_method |-> method, best_notes |-> notes]

\* a BBL match that passes over the positions earlier records have taken
StrategyBbl_skip_claimed(best, leed_bbl) ==
  LET free == IF leed_bbl # "" /\ leed_bbl \in DOMAIN nyc_by_bbl
              THEN SelectSeq(nyc_by_bbl[leed_bbl],
                             LAMBDA i : \A k \in DOMAIN matches : matches[k].nyc_index # i)
              ELSE <<>>
  IN IF free # <<>>
     THEN [best_match |-> free[1], best_confidence |-> 100,
           best_method |-> "exact_bbl", best_notes |-> "BBL=" \o leed_bbl]
     ELSE best

\* a BBL match reported under another tag
StrategyBbl_parcel_tag(best, leed_bbl) ==
  IF leed_bbl # "" /\ leed_bbl \in DOMAIN nyc_by_bbl
  THEN [best_match |-> nyc_by_bbl[leed_bbl][1], best_confidence |-> 100,
        best_method |-> "exact_parcel", best_notes |-> "BBL=" \o leed_bbl]
  ELSE best

\* Strategy 1: BBL match
StrategyBbl(best, leed_bbl) ==
  IF leed_bbl # "" /\ leed_bbl \in DOMAIN nyc_by_bbl
  THEN Best(nyc_by_bbl[leed_bbl][1], 100, "exact_bbl", "BBL=" \o leed_bbl)
  ELSE best

\* a BIN match that replaces a BBL match
StrategyBin_unguarded(best, leed_bin) ==
  IF leed_bin # "" /\ leed_bin \in DOMAIN nyc_by_bin
  THEN [best_match |-> nyc_by_bin[leed_bin][1], best_confidence |-> 100,
        best_method |-> "exact_bin", best_notes |-> "BIN=" \o leed_bin]
  ELSE best

\* Strategy 2: BIN match
StrategyBin(best, leed_bin) ==
  IF best.best_confidence < 100 /\ leed_bin # "" /\ leed_bin \in DOMAIN nyc_by_bin
  THEN Best(nyc_by_bin[leed_bin][1], 100, "exact_bin", "BIN=" \o leed_bin)
  ELSE best

\* Strategy 3: exact address + zip match
StrategyAddrZip(best, leed_addr, leed_zip) ==
  IF /\ best.best_confidence < 95 /\ leed_addr # "" /\ leed_zip # ""
     /\ (leed_addr \o "|" \o leed_zip) \in DOMAIN nyc_by_addr_zip
  THEN Best(nyc_by_addr_zip[leed_addr \o "|" \o leed_zip][1], 90, "exact_address",
            "addr=" \o leed_addr \o ", zip=" \o leed_zip)
  ELSE best

\* Python's "not best_match": true of None and of the index label 0
Falsy(m) == m = None \/ m = 0

\* a scan that stops at the first NYC record of the same address
ExactAddressScan_first_only(k, best, leed_addr, leed_borough) ==
  LET same == {j \in k..Len(nyc_addr_list) : nyc_addr_list[j].addr = leed_addr}
  IN IF same = {} THEN best
     ELSE LET first == CHOOSE i \in same : \A j \in same : i <= j
              idx == nyc_addr_list[first].idx
              nyc_boro == _clean(nyc_df[idx + 1].borough_norm)
          IN IF leed_borough # "" /\ nyc_boro # "" /\ leed_borough = nyc_boro
             THEN [best_match |-> idx, best_confidence |-> 88,
                   best_method |-> "exact_address_borough",
                   best_notes |-> "addr=" \o leed_addr \o ", borough=" \o leed_borough]
             ELSE [best_match |-> idx, best_confidence |-> 85,
                   best_method |-> "exact_address_no_zip",
                   best_notes |-> "addr=" \o leed_addr]

RECURSIVE ExactAddressScan(_, _, _, _)
\* the loop of Strategy 3b from entry k of nyc_addresses
ExactAddressScan(k, best, leed_addr, leed_borough) ==
  IF k > Len(nyc_addr_list) THEN best
  ELSE LET idx == nyc_addr_list[k].idx
           nyc_boro == _clean(NycRow(idx).borough_norm)
       IN IF nyc_addr_list[k].addr # leed_addr
          THEN ExactAddressScan(k + 1, best, leed_addr, leed_borough)
          ELSE IF leed_borough # "" /\ nyc_boro # "" /\ leed_borough = nyc_boro
          THEN Best(idx, 88, "exact_address_borough",
                    "addr=" \o leed_addr \o ", borough=" \o leed_borough)
          ELSE IF Falsy(best.best_match) \/ best.best_confidence < 85
          THEN ExactAddressScan(k + 1,
                 Best(idx, 85, "exact_address_no_zip", "addr=" \o leed_addr),
                 leed_addr, leed_borough)
          ELSE ExactAddressScan(k + 1, best, leed_addr, leed_borough)

\* Strategy 3b attempted whatever the confidence reached so far
StrategyAddr_unguarded(best, leed_addr, leed_borough) ==
  IF leed_addr # ""
  THEN ExactAddressScan(1, best, leed_addr, leed_borough)
  ELSE best

\* Strategy 3b: exact address match (no zip required)
StrategyAddr(best, leed_addr, leed_borough) ==
  IF best.best_confidence < 90 /\ leed_addr # ""
  THEN ExactAddressScan(1, best, leed_addr, leed_borough)
  ELSE best

\* process.extractOne(query, choices, scorer=fuzz.token_sort_ratio,
\* score_cutoff=cutoff): the first choice of the highest score, if that score
\* reaches the cutoff; choices is the sequence of (idx, str) of the dict
ExtractOne(query, choices, cutoff) ==
  LET score(k) == token_sort_ratio(query, choices[k].str)
      ok == {k \in DOMAIN choices : score(k) >= cutoff}
  IN IF ok = {} THEN [found |-> FALSE]
     ELSE LET k == CHOOSE i \in ok :
                     \A j \in ok : score(i) > score(j) \/ (score(i) = score(j) /\ i <= j)
          IN [found |-> TRUE, match_str |-> choices[k].str,
              score |-> score(k), idx |-> choices[k].idx]

\* the rescaling without the subtraction of the threshold and without the clamp
FuzzyConfidence_unscaled(lo, hi, score, threshold) ==
  lo + (score * 19) \div (100 - threshold)

\* the rescaling with a slope of 20 confidence points over the band
FuzzyConfidence_slope20(lo, hi, score, threshold) ==
  LET raw == lo + ((score - threshold) * 20) \div (100 - threshold)
  IN IF raw > hi THEN hi ELSE IF raw < lo THEN lo ELSE raw

\* min(hi, max(lo, int(lo + (score - threshold) * 19 / (100 - threshold))))
\* for a score that reached the threshold
FuzzyConfidence(lo, hi, score, threshold) ==
  Min(hi, Max(lo, lo + ((score - threshold) * 19) \div (100 - threshold)))

\* the candidates of Strategy 4: same zip, otherwise same borough
AddressCandidates(leed_zip, leed_borough) ==
  LET Keep(e) ==
        IF leed_zip # "" /\ e.zip # "" /\ leed_zip = e.zip THEN TRUE
        ELSE IF leed_borough # ""
        THEN _clean(NycRow(e.idx).borough_norm) = leed_borough
        ELSE FALSE
      kept == SelectSeq(nyc_addr_list, Keep)
  IN [k \in DOMAIN kept |-> [idx |-> kept[k].idx, str |-> kept[k].addr]]

\* Strategy 4: fuzzy address match (within same zip or borough)
StrategyFuzzyAddress(best, leed_addr, leed_zip, leed_borough) ==
  LET candidates == AddressCandidates(leed_zip, leed_borough)
      result == ExtractOne(leed_addr, candidates, fuzzy_address_threshold)
      confidence == FuzzyConfidence(70, 89, result.score, fuzzy_address_threshold)
  IN IF /\ best.best_confidence < 80 /\ leed_addr # ""
        /\ candidates # <<>> /\ result.found
        /\ confidence > best.best_confidence
     THEN Best(result.idx, confidence, "fuzzy_address",
               "score=" \o ToString(result.score) \o ", addr=" \o result.match_str)
     ELSE best

\* the candidates of Strategy 5: same zip or same borough
NameCandidates(leed_zip, leed_borough) ==
  LET Keep(e) ==
        LET same_zip == IF leed_zip # "" THEN e.zip = leed_zip ELSE FALSE
            same_borough == IF leed_borough # ""
                            THEN NycRow(e.idx).borough_norm = leed_borough
                            ELSE FALSE
        IN same_zip \/ same_borough
      kept == SelectSeq(nyc_names, Keep)
  IN [k \in DOMAIN kept |-> [idx |-> kept[k].idx, str |-> kept[k].name]]

\* a fuzzy name match rescaled onto the band of the fuzzy address match
StrategyFuzzyName_address_band(best, leed_name, leed_zip, leed_borough) ==
  LET candidates == NameCandidates(leed_zip, leed_borough)
      result == ExtractOne(leed_name, candidates, fuzzy_name_threshold)
      confidence == FuzzyConfidence(70, 89, result.score, fuzzy_name_threshold)
  IN IF /\ best.best_confidence < 70 /\ leed_name # ""
        /\ candidates # <<>> /\ result.found
        /\ confidence > best.best_confidence
     THEN [best_match |-> result.idx, best_confidence |-> confidence,
           best_method |-> "fuzzy_name",
           best_notes |-> "score=" \o ToString(result.score) \o ", name=" \o result.match_str]
     ELSE best

\* Strategy 5: fuzzy name match (within same zip or borough)
StrategyFuzzyName(best, leed_name, leed_zip, leed_borough) ==
  LET candidates == NameCandidates(leed_zip, leed_borough)
      result == ExtractOne(leed_name, candidates, fuzzy_name_threshold)
      confidence == FuzzyConfidence(50, 69, result.score, fuzzy_name_threshold)
  IN IF /\ best.best_confidence < 70 /\ leed_name # ""
        /\ candidates # <<>> /\ result.found
        /\ confidence > best.best_confidence
     THEN Best(result.idx, confidence, "fuzzy_name",
               "score=" \o ToString(result.score) \o ", name=" \o result.match_str)
     ELSE best

\* the best match of one LEED record after the five strategies in order
BestMatch(leed_row) ==
  LET leed_bbl == _clean(leed_row.bbl_norm)
      leed_bin == _clean(leed_row.bin_norm)
      leed_addr == _clean(leed_row.address_norm)
      leed_zip == _clean(leed_row.zip_norm)
      leed_name == _clean(leed_row.building_name_norm)
      leed_borough == _clean(leed_row.borough_norm)
      b1 == StrategyBbl(NoBest, leed_bbl)
      b2 == StrategyBin(b1, leed_bin)
      b3 == StrategyAddrZip(b2, leed_addr, leed_zip)
      b3b == StrategyAddr(b3, leed_addr, leed_borough)
      b4 == StrategyFuzzyAddress(b3b, leed_addr, leed_zip, leed_borough)
  IN StrategyFuzzyName(b4, leed_name, leed_zip, leed_borough)

MatchRow(leed_row, best) ==
  [leed_source_id |-> leed_row.source_id, nyc_index |-> best.best_match,
   match_confidence |-> best.best_confidence, match_method |-> best.best_method,
   match_notes |-> best.best_notes]

UnmatchedRow(leed_row) ==
  [leed_source_id |-> leed_row.source_id,
   building_name_raw |-> leed_row.building_name_raw,
   address_raw |-> leed_row.address_raw, zip |-> leed_row.zip,
   match_confidence |-> 0, match_method |-> "none",
   match_notes |-> "No match found"]

\* an emission that also lists every matched record as unmatched
EmitResult_also_unmatched(leed_row, best) ==
  [matches |-> IF best.best_match # None
               THEN Append(matches, MatchRow(leed_row, best)) ELSE matches,
   unmatched_leed |-> Append(unmatched_leed, UnmatchedRow(leed_row))]

\* the two lists after the result of a record is appended: to matches if
\* best_match is not None, else to unmatched_leed
EmitResult(leed_row, best) ==
  IF best.best_match # None
  THEN [matches |-> Append(matches, MatchRow(leed_row, best)),
        unmatched_leed |-> unmatched_leed]
  ELSE [matches |-> matches,
        unmatched_leed |-> Append(unmatched_leed, UnmatchedRow(leed_row))]

\* one iteration of the loop over the LEED records
MatchRecord ==
  /\ pc = "match"
  /\ leed_pos < Len(leed_df)
  /\ LET leed_row == leed_df[leed_pos + 1]
         emitted == EmitResult(leed_row, BestMatch(leed_row))
     IN /\ matches' = emitted.matches
        /\ unmatched_leed' = emitted.unmatched_leed
  /\ leed_pos' = leed_pos + 1
  /\ UNCHANGED <<rescale_vars, runner_vars, table_vars, norm_vars,
                 input_vars, index_vars, matched_df, review_queue,
                 manual_vars, master, pc, error>>

MATCH_COLUMNS ==
  {"leed_source_id", "nyc_index", "match_confidence", "match_method", "match_notes"}

UNMATCHED_COLUMNS ==
  {"leed_source_id", "building_name_raw", "address_raw", "zip",
   "match_confidence", "match_method", "match_notes"}

\* pd.DataFrame(records): no columns when there are no records
DataFrame(records, columns) ==
  IF records = <<>> THEN EmptyFrame ELSE [columns |-> columns, rows |-> records]

\* the missing value a column takes in a row that does not have it
Missing(col) == IF col = "nyc_index" THEN NaN ELSE NA

\* pd.concat([a, b], ignore_index=True): the rows of a then of b over the
\* union of the columns
Concat2(a, b) ==
  LET cols == a.columns \union b.columns
      Fill(row) == [c \in cols |-> IF c \in DOMAIN row THEN row[c] ELSE Missing(c)]
      rows == a.rows \o b.rows
  IN [columns |-> cols, rows |-> [k \in DOMAIN rows |-> Fill(rows[k])]]

\* a filter that also keeps the rows at the threshold
LowConfidence_inclusive(rows, threshold) ==
  SelectSeq(rows, LAMBDA r : r.match_confidence <= threshold)

\* matched_df[matched_df["match_confidence"] < min_confidence]
LowConfidence(rows, threshold) ==
  SelectSeq(rows, LAMBDA r : r.match_confidence < threshold)

\* the end of match_buildings: the two frames; matched_df["match_confidence"]
\* raises KeyError on a frame without columns
BuildReviewQueue ==
  /\ pc = "match"
  /\ leed_pos = Len(leed_df)
  /\ LET m == DataFrame(matches, MATCH_COLUMNS)
         unmatched_df == DataFrame(unmatched_leed, UNMATCHED_COLUMNS)
         low == [columns |-> m.columns,
                 rows |-> LowConfidence(m.rows, min_confidence)]
     IN IF "match_confidence" \notin m.columns
        THEN /\ error' = "KeyError"
             /\ pc' = "failed"
             /\ UNCHANGED <<matched_df, review_queue>>
        ELSE /\ matched_df' = m
             /\ review_queue' = Concat2(low, unmatched_df)
             /\ pc' = "matched"
             /\ UNCHANGED error
  /\ UNCHANGED <<rescale_vars, runner_vars, table_vars, norm_vars,
                 input_vars, index_vars, loop_vars, manual_vars, master>>

(***************************************************************************)
(* apply_manual_mapping                                                    *)
(***************************************************************************)

MANUAL_COLUMNS == {"leed_source_id", "nyc_source_id", "decision", "notes"}

\* the decisions a mapping file of the model can hold
DecisionRows ==
  [leed_source_id : {"LEED_1", "LEED_2"}, nyc_source_id : {"NYC_2"},
   decision : {"match", "reject", "skip"}, notes : {"checked"}]

\* a row of the file restricted to the columns the file has
Project(row, columns) == [c \in columns |-> row[c]]

\* what pd.read_csv finds at manual_mapping_path: no path given, no file, a
\* file without any content, a file that does not parse, or a frame; the
\* frames lacking a column hold at most one decision
ManualFiles ==
  { [status |-> s, frame |-> EmptyFrame] :
      s \in {"no_path", "absent", "empty", "unparseable"} }
  \union
  { [status |-> "ok", frame |-> [columns |-> MANUAL_COLUMNS, rows |-> rows]] :
      rows \in UNION { [1..n -> DecisionRows] : n \in 0..MaxDecisions } }
  \union
  { [status |-> "ok",
     frame |-> [columns |-> cols,
                rows |-> [k \in DOMAIN rows |-> Project(rows[k], cols)]]] :
      rows \in UNION { [1..n -> DecisionRows] : n \in 0..1 },
      cols \in { MANUAL_COLUMNS \ {"leed_source_id"},
                 MANUAL_COLUMNS \ {"nyc_source_id"},
                 MANUAL_COLUMNS \ {"decision", "notes"} } }

\* the exception pd.read_csv raises, "" when it returns a frame
ReadCsvError(status) ==
  CASE status = "absent" -> "FileNotFoundError"
    [] status = "empty" -> "EmptyDataError"
    [] status = "unparseable" -> "ParserError"
    [] OTHER -> ""

\* row.get(col, default)
RowGet(row, col, default) == IF col \in DOMAIN row THEN row[col] ELSE default

\* an override that leaves the automatic confidence and method in place
OverrideRows_notes_only(frame, row) ==
  LET cols == frame.columns \union {"nyc_source_id"}
      Write(r) ==
        IF r.leed_source_id = row.leed_source_id
        THEN [c \in cols |->
                CASE c = "nyc_source_id" -> row.nyc_source_id
                  [] c = "match_notes" -> "manual override"
                  [] OTHER -> r[c]]
        ELSE [c \in cols |-> IF c \in DOMAIN r THEN r[c] ELSE NA]
  IN [columns |-> cols, rows |-> [k \in DOMAIN frame.rows |-> Write(frame.rows[k])]]

\* an override that also points the row at the record its nyc_source_id names
OverrideRows_relinked(frame, row) ==
  LET cols == frame.columns \union {"nyc_source_id"}
      named == {i \in DOMAIN nyc_df : nyc_df[i].source_id = row.nyc_source_id}
      Write(r) ==
        IF r.leed_source_id = row.leed_source_id
        THEN [c \in cols |->
                CASE c = "nyc_source_id" -> row.nyc_source_id
                  [] c = "nyc_index" ->
                       IF named = {} THEN NaN ELSE (CHOOSE i \in named : TRUE) - 1
                  [] c = "match_confidence" -> 100
                  [] c = "match_method" -> "manual_review"
                  [] c = "match_notes" -> RowGet(row, "notes", "manual override")
                  [] OTHER -> r[c]]
        ELSE [c \in cols |-> IF c \in DOMAIN r THEN r[c] ELSE Missing(c)]
  IN [columns |-> cols, rows |-> [k \in DOMAIN frame.rows |-> Write(frame.rows[k])]]

\* matched_df.loc[mask, ...] = ...: the override written over the rows of id
OverrideRows(frame, row) ==
  LET cols == frame.columns \union {"nyc_source_id"}
      Write(r) ==
        IF r.leed_source_id = row.leed_source_id
        THEN [c \in cols |->
                CASE c = "nyc_source_id" -> row.nyc_source_id
                  [] c = "match_confidence" -> 100
                  [] c = "match_method" -> "manual_review"
                  [] c = "match_notes" -> RowGet(row, "notes", "manual override")
                  [] OTHER -> r[c]]
        ELSE [c \in cols |-> IF c \in DOMAIN r THEN r[c] ELSE Missing(c)]
  IN [columns |-> cols, rows |-> [k \in DOMAIN frame.rows |-> Write(frame.rows[k])]]

\* the row appended for an id that has no row
ManualRow(row) ==
  [leed_source_id |-> row.leed_source_id, nyc_source_id |-> row.nyc_source_id,
   match_confidence |-> 100, match_method |-> "manual_review",
   match_notes |-> RowGet(row, "notes", "manual override")]

\* one iteration of the loop over the decisions: the frame after it, or the
\* KeyError of a column that is not there
ApplyDecision(frame, row) ==
  LET decision == RowGet(row, "decision", "match")
      has_id == \E k \in DOMAIN frame.rows :
                   frame.rows[k].leed_source_id = row.leed_source_id
  IN IF "leed_source_id" \notin DOMAIN row
     THEN [error |-> "KeyError", frame |-> frame]
     ELSE IF decision = "reject"
     THEN IF "leed_source_id" \notin frame.columns
          THEN [error |-> "KeyError", frame |-> frame]
          ELSE [error |-> "",
                frame |-> [columns |-> frame.columns,
                           rows |-> SelectSeq(frame.rows,
                                      LAMBDA r : r.leed_source_id # row.leed_source_id)]]
     ELSE IF decision = "match"
     THEN IF "leed_source_id" \notin frame.columns \/ "nyc_source_id" \notin DOMAIN row
          THEN [error |-> "KeyError", frame |-> frame]
          ELSE IF has_id
          THEN [error |-> "", frame |-> OverrideRows(frame, row)]
          ELSE [error |-> "",
                frame |-> Concat2(frame,
                            [columns |-> DOMAIN ManualRow(row), rows |-> <<ManualRow(row)>>])]
     ELSE [error |-> "", frame |-> frame]

RECURSIVE ApplyDecisions_last_first(_, _, _)
\* the decisions applied from the last row of the file to the first
ApplyDecisions_last_first(frame, rows, k) ==
  IF k > Len(rows) THEN [error |-> "", frame |-> frame]
  ELSE LET step == ApplyDecision(frame, rows[Len(rows) + 1 - k])
       IN IF step.error # "" THEN step
          ELSE ApplyDecisions_last_first(step.frame, rows, k + 1)

RECURSIVE ApplyDecisions(_, _, _)
\* the loop over manual.iterrows() from row k, ended by the first exception
ApplyDecisions(frame, rows, k) ==
  IF k > Len(rows) THEN [error |-> "", frame |-> frame]
  ELSE LET step == ApplyDecision(frame, rows[k])
       IN IF step.error # "" THEN step
          ELSE ApplyDecisions(step.frame, rows, k + 1)

\* apply_manual_mapping(matched_df, manual_mapping_path), called when manual
\* mapping is requested
ApplyManualMapping ==
  /\ pc = "matched"
  /\ use_manual_mapping
  /\ \E f \in ManualFiles :
       LET read_error == ReadCsvError(f.status)
           result == ApplyDecisions(matched_df, f.frame.rows, 1)
       IN /\ manual_file' = f.status
          /\ IF f.status \in {"no_path", "absent"}
             THEN /\ UNCHANGED <<manual, matched_df, error>>
                  /\ pc' = "mapped"
             ELSE IF read_error # ""
             THEN /\ error' = read_error
                  /\ pc' = "failed"
                  /\ UNCHANGED <<manual, matched_df>>
             ELSE /\ manual' = f.frame
                  /\ IF result.error # ""
                     THEN /\ error' = result.error
                          /\ pc' = "failed"
                          /\ UNCHANGED matched_df
                     ELSE /\ matched_df' = result.frame
                          /\ pc' = "mapped"
                          /\ UNCHANGED error
  /\ UNCHANGED <<rescale_vars, runner_vars, table_vars, norm_vars,
                 input_vars, index_vars, loop_vars, review_queue, master>>

\* the script without --use-manual-mapping
SkipManualMapping ==
  /\ pc = "matched"
  /\ ~use_manual_mapping
  /\ pc' = "mapped"
  /\ UNCHANGED <<rescale_vars, runner_vars, table_vars, norm_vars,
                 input_vars, index_vars, loop_vars, matched_df,
                 review_queue, manual_vars, master, error>>

(***************************************************************************)
(* build_master_table                                                      *)
(***************************************************************************)

\* the columns of the frames of the model
LEED_COLUMNS == DOMAIN LeedShape("", "", "", "", "", "") \union {"source_id"}

NYC_COLUMNS == DOMAIN NycShape("", "", "", "", "", "", "") \union {"source_id"}

\* the LEED fields added via source_id lookup
LEED_FIELDS ==
  {"building_name_raw", "address_raw", "address_norm", "zip", "leed_level",
   "leed_cert_year", "city", "source_name", "lat", "lon", "project_type",
   "leed_version", "gross_sqft"}

\* the NYC grades fields added via nyc_index lookup: <<src_col, dest_col>>
NYC_FIELDS ==
  { <<"energy_grade", "energy_grade">>, <<"energy_star_score", "energy_star_score">>,
    <<"site_eui", "site_eui">>, <<"bbl", "bbl">>, <<"bbl_norm", "bbl_norm">>,
    <<"borough_norm", "borough">>, <<"address_raw", "nyc_address">>,
    <<"source_id", "nyc_grades_source_id">> }

LL97_FIELDS == {"ghg_emissions_tco2e", "ll97_limit_tco2e", "ll97_overage_tco2e"}

BENCH_FIELDS == {"ghg_emissions_tco2e", "site_eui"}

contract_cols ==
  {"source_id", "source_name", "building_name_raw", "address_raw",
   "address_norm", "bbl", "bin", "borough", "zip",
   "leed_level", "leed_cert_year", "energy_grade", "energy_star_score",
   "site_eui", "ghg_emissions_tco2e", "ll97_limit_tco2e",
   "ll97_overage_tco2e", "match_confidence", "match_method", "match_notes"}

\* the cleaned LL97 and benchmarking tables the master table is joined with;
\* a BBL written with dashes makes their bbl column a column of strings
Ll97Frames ==
  { EmptyFrame,
    [columns |-> {"bbl"} \union LL97_FIELDS,
     rows |-> <<[bbl |-> "1001234005", ghg_emissions_tco2e |-> "120",
                 ll97_limit_tco2e |-> "100", ll97_overage_tco2e |-> "20"],
                [bbl |-> "4-00567-0008", ghg_emissions_tco2e |-> "300",
                 ll97_limit_tco2e |-> "310", ll97_overage_tco2e |-> "-10"]>>] }

BenchFrames ==
  { EmptyFrame,
    [columns |-> {"bbl"} \union BENCH_FIELDS,
     rows |-> <<[bbl |-> "1001234005", ghg_emissions_tco2e |-> "95",
                 site_eui |-> "61"],
                [bbl |-> "4-00567-0008", ghg_emissions_tco2e |-> "280",
                 site_eui |-> "75"]>>] }

\* frame.empty: no rows or no columns
IsEmpty(frame) == frame.rows = <<>> \/ frame.columns = {}

\* series.map(lookup[col]) for a lookup frame indexed by key_col after
\* drop_duplicates: the value of the first row with that key, else missing
Lookup(frame, key_col, key, col) ==
  LET hits == {k \in DOMAIN frame.rows : frame.rows[k][key_col] = key}
  IN IF hits = {} THEN NA
     ELSE frame.rows[CHOOSE k \in hits : \A j \in hits : k <= j][col]

\* the LEED fields of a master row: master["leed_source_id"].map(leed_indexed[col])
LeedFields(row) ==
  LET leed_indexed == [columns |-> LEED_COLUMNS, rows |-> leed_df]
  IN [col \in LEED_FIELDS \intersect LEED_COLUMNS |->
        Lookup(leed_indexed, "source_id", row.leed_source_id, col)]

\* the NYC grades fields of a master row: nyc_grades_df.at[i, src_col] if the
\* label i is in the index, else None
NycFields(row, nyc_grades_df) ==
  LET pairs == {p \in NYC_FIELDS : p[1] \in NYC_COLUMNS}
      i == row.nyc_index
  IN [dest \in {p[2] : p \in pairs} |->
        LET p == CHOOSE q \in pairs : q[2] = dest
        IN IF i >= 0 /\ i < Len(nyc_grades_df) THEN nyc_grades_df[i + 1][p[1]] ELSE NA]

\* the cell texts of the tables that pd.read_csv parses as integers
NumericTexts == {"1001234005", "3000010001"}

\* the dtype pd.read_csv (load_csv) gives a column: int64 when every cell is
\* an integer, float64 when the cells are integers and missing values,
\* object when some cell is other text
ColumnDtype(cells) ==
  IF \A k \in DOMAIN cells : cells[k] \in NumericTexts \union {NA}
  THEN IF \E k \in DOMAIN cells : cells[k] = NA THEN "float64" ELSE "int64"
  ELSE "object"

\* str(value) of a cell of a column of a dtype, as astype(str) computes it:
\* an integer held as a float is written with ".0"
AsTypeStr(cell, dtype) ==
  IF cell = NA THEN "nan"
  ELSE IF dtype = "float64" THEN cell \o ".0"
  ELSE cell

\* master["bbl"].astype(str).replace({"nan": "", "None": ""})
MasterBbl(bbl) == IF bbl \in {"nan", "None"} THEN "" ELSE bbl

\* master_bbl.map(lookup[col]): master_bbl holds strings, so a key is found
\* only in an index of strings (a bbl column of dtype object); an int64 or
\* float64 index holds numbers, which no string equals
BblLookup(frame, key, col) ==
  IF ColumnDtype([k \in DOMAIN frame.rows |-> frame.rows[k].bbl]) = "object"
  THEN Lookup(frame, "bbl", key, col)
  ELSE NA

\* the columns of a row that hold a missing value in every row of the frame
AllMissing(rows, col) == \A k \in DOMAIN rows : rows[k][col] = NA

\* f @@ g with the values of g taking precedence: a column assignment
Assign(row, fields) == fields @@ row

\* the rows after the joins, before the contract columns are ensured
JoinedRows(nyc_grades_df, nyc_bench_df, nyc_ll97_df) ==
  LET base == [k \in DOMAIN matched_df.rows |->
                 Assign(matched_df.rows[k], LeedFields(matched_df.rows[k]))]
      with_nyc ==
        IF "nyc_index" \in matched_df.columns /\ nyc_grades_df # <<>>
        THEN [k \in DOMAIN base |-> Assign(base[k], NycFields(base[k], nyc_grades_df))]
        ELSE base
      has_bbl == with_nyc # <<>> /\ "bbl" \in DOMAIN with_nyc[1]
      \* the dtype of master["bbl"]: that of the grades column its values
      \* come from; integers next to the None of a row without a label of
      \* the grades table make a float64 column
      grades_dtype == ColumnDtype([k \in DOMAIN nyc_grades_df |-> nyc_grades_df[k].bbl])
      unlabelled == \E k \in DOMAIN with_nyc :
                      ~(with_nyc[k].nyc_index >= 0 /\ with_nyc[k].nyc_index < Len(nyc_grades_df))
      bbl_dtype == IF grades_dtype = "int64" /\ unlabelled THEN "float64" ELSE grades_dtype
      master_bbl(k) == MasterBbl(AsTypeStr(with_nyc[k].bbl, bbl_dtype))
      ll97_cols == IF ~IsEmpty(nyc_ll97_df) /\ has_bbl /\ "bbl" \in nyc_ll97_df.columns
                   THEN LL97_FIELDS \intersect nyc_ll97_df.columns ELSE {}
      with_ll97 ==
        [k \in DOMAIN with_nyc |->
           Assign(with_nyc[k],
                  [col \in ll97_cols |->
                     BblLookup(nyc_ll97_df, master_bbl(k), col)])]
      bench_cols ==
        IF ~IsEmpty(nyc_bench_df) /\ has_bbl /\ "bbl" \in nyc_bench_df.columns
        THEN {col \in BENCH_FIELDS \intersect nyc_bench_df.columns :
                col \notin DOMAIN with_ll97[1] \/ AllMissing(with_ll97, col)}
        ELSE {}
  IN [k \in DOMAIN with_ll97 |->
        Assign(with_ll97[k],
               [col \in bench_cols |->
                  BblLookup(nyc_bench_df, master_bbl(k), col)])]

\* a master table that keeps only the rows joined to an NYC record
build_master_table_inner_join(nyc_grades_df, nyc_bench_df, nyc_ll97_df) ==
  IF IsEmpty(matched_df) THEN EmptyFrame
  ELSE LET joined == JoinedRows(nyc_grades_df, nyc_bench_df, nyc_ll97_df)
           kept == SelectSeq(joined, LAMBDA row : row.nyc_index >= 0)
           Contract(row) ==
             LET filled == row @@ [col \in contract_cols \ DOMAIN row |-> NA]
             IN Assign(filled, [source_id |-> row.leed_source_id])
           rows == [k \in DOMAIN kept |-> Contract(kept[k])]
       IN IF rows = <<>> THEN EmptyFrame ELSE [columns |-> DOMAIN rows[1], rows |-> rows]

\* a master table whose source_id is not taken from leed_source_id
build_master_table_no_source_id(nyc_grades_df, nyc_bench_df, nyc_ll97_df) ==
  IF IsEmpty(matched_df) THEN EmptyFrame
  ELSE LET joined == JoinedRows(nyc_grades_df, nyc_bench_df, nyc_ll97_df)
           Contract(row) ==
             LET nyc_id == IF "nyc_grades_source_id" \in DOMAIN row
                           THEN row.nyc_grades_source_id ELSE NA
             IN [source_id |-> nyc_id] @@ row @@ [col \in contract_cols \ DOMAIN row |-> NA]
           rows == [k \in DOMAIN joined |-> Contract(joined[k])]
       IN [columns |-> DOMAIN rows[1], rows |-> rows]

\* build_master_table(leed_df, nyc_grades_df, nyc_bench_df, nyc_ll97_df, matched_df)
build_master_table(nyc_grades_df, nyc_bench_df, nyc_ll97_df) ==
  IF IsEmpty(matched_df) THEN EmptyFrame
  ELSE LET joined == JoinedRows(nyc_grades_df, nyc_bench_df, nyc_ll97_df)
           Contract(row) ==
             LET filled == row @@ [col \in contract_cols \ DOMAIN row |-> NA]
             IN Assign(filled, [source_id |-> row.leed_source_id])
           rows == [k \in DOMAIN joined |-> Contract(joined[k])]
       IN [columns |-> DOMAIN rows[1], rows |-> rows]

\* the script's call, with the grades table as the NYC table that was
\* matched; the benchmarking and LL97 tables are read from the cleaned files
\* and nothing uses them before this call
BuildMasterTableWith(bench_frames, ll97_frames) ==
  /\ pc = "mapped"
  /\ bench_df' \in bench_frames
  /\ ll97_df' \in ll97_frames
  /\ master' = build_master_table(nyc_df, bench_df', ll97_df')
  /\ pc' = "done"
  /\ UNCHANGED <<rescale_vars, runner_vars, norm_vars,
                 input_vars, index_vars, loop_vars, matched_df,
                 review_queue, manual_vars, error>>

BuildMasterTable == BuildMasterTableWith(BenchFrames, Ll97Frames)

\* the script without --use-manual-mapping
Init == MatchInit(LeedShapes, NycShapes, Settings, FALSE)

Next ==
  \/ BuildIndexes
  \/ MatchRecord
  \/ BuildReviewQueue
  \/ SkipManualMapping
  \/ BuildMasterTable

Spec == Init /\ [][Next]_vars

\* the script with --use-manual-mapping
InitOverride == MatchInit(OverrideLeedShapes, OverrideNycShapes, Settings, TRUE)

NextOverride ==
  \/ BuildIndexes
  \/ MatchRecord
  \/ BuildReviewQueue
  \/ ApplyManualMapping
  \/ BuildMasterTable

SpecOverride == InitOverride /\ [][NextOverride]_vars

(***************************************************************************)
(* Properties of the matching pipeline                                     *)
(***************************************************************************)

\* the results match_buildings has emitted so far
Results == {matches[k] : k \in DOMAIN matches}
             \union {unmatched_leed[k] : k \in DOMAIN unmatched_leed}

MatchedRows == {matched_df.rows[k] : k \in DOMAIN matched_df.rows}

QueueRows == {review_queue.rows[k] : k \in DOMAIN review_queue.rows}

\* C4: every result match_buildings emits, matched or unmatched, every row of
\* its review queue and every row of the matched set after
\* apply_manual_mapping has an integer match_confidence between 0 and 100;
\* so has the confidence the two fuzzy strategies derive from any score
\* between the run's threshold and 100
C4_ConfidenceDomain ==
  /\ \A r \in Results \union MatchedRows \union QueueRows :
       r.match_confidence \in 0..100
  /\ \A score \in fuzzy_address_threshold..100 :
       FuzzyConfidence(70, 89, score, fuzzy_address_threshold) \in 0..100
  /\ \A score \in fuzzy_name_threshold..100 :
       FuzzyConfidence(50, 69, score, fuzzy_name_threshold) \in 0..100

\* a run with manual mapping applied whose matched set holds an automatic
\* fuzzy match next to a manual match of a record that had matched nothing
C4_Witness ==
  /\ pc = "mapped"
  /\ manual_file = "ok"
  /\ \E r \in MatchedRows : r.match_method = "fuzzy_address" /\ r.match_confidence = 89
  /\ \E r \in MatchedRows, u \in Results :
       /\ r.match_method = "manual_review" /\ r.match_confidence = 100
       /\ u.match_method = "none" /\ u.match_confidence = 0
       /\ u.leed_source_id = r.leed_source_id

\* the tier of a method in the order the strategies are tried
Tier(method) ==
  CASE method \in {"exact_bbl", "exact_bin"} -> 1
    [] method = "exact_address" -> 2
    [] method = "exact_address_borough" -> 3
    [] method = "exact_address_no_zip" -> 4
    [] method = "fuzzy_address" -> 5
    [] method = "fuzzy_name" -> 6
    [] method = "none" -> 7

\* C5: tier monotonicity: of any two results of match_buildings, the one of
\* the earlier tier (ID, address + zip, address + borough, address alone,
\* fuzzy address, fuzzy name, unmatched) has a confidence at least that of
\* the other
C5_TierMonotonicity ==
  \A r1 \in Results, r2 \in Results :
    Tier(r1.match_method) < Tier(r2.match_method)
      => r1.match_confidence >= r2.match_confidence

\* C5 (amended): the tiers are monotone except that a fuzzy_address result,
\* whose band is 70..89, may exceed the exact-address results of 88 and 85:
\* ID (100) >= address + zip (90) >= each of address + borough (88), address
\* alone (85) and fuzzy address (70..89); 88 >= 85; each of these >= fuzzy
\* name (50..69) >= unmatched (0)
C5_TierMonotonicityAmended ==
  \A r1 \in Results, r2 \in Results :
    /\ Tier(r1.match_method) < Tier(r2.match_method)
    /\ ~(Tier(r1.match_method) \in {3, 4} /\ Tier(r2.match_method) = 5)
    => r1.match_confidence >= r2.match_confidence

\* a run with a fuzzy address result above an exact-address result
C5_Witness ==
  \E r1 \in Results, r2 \in Results :
    /\ r1.match_method = "exact_address_no_zip" /\ r1.match_confidence = 85
    /\ r2.match_method = "fuzzy_address" /\ r2.match_confidence = 89

\* the method tags of the specification
SPEC_METHODS ==
  {"exact_parcel", "exact_building_id", "exact_address_zip",
   "exact_address_borough", "exact_address_no_zip", "fuzzy_address",
   "fuzzy_name", "manual_review", "none"}

\* the method tags of the code
CODE_METHODS ==
  {"exact_bbl", "exact_bin", "exact_address",
   "exact_address_borough", "exact_address_no_zip", "fuzzy_address",
   "fuzzy_name", "manual_review", "none"}

\* the LEED record of a result
LeedOf(r) == CHOOSE row \in {leed_df[k] : k \in DOMAIN leed_df} :
               row.source_id = r.leed_source_id

\* some NYC record has the same non-empty value in a field as the LEED record
SameField(leed_row, field) ==
  \E k \in DOMAIN nyc_df :
    /\ _clean(leed_row[field]) # ""
    /\ _clean(nyc_df[k][field]) = _clean(leed_row[field])

SameAddrZip(leed_row) ==
  \E k \in DOMAIN nyc_df :
    /\ _clean(leed_row.address_norm) # "" /\ _clean(leed_row.zip_norm) # ""
    /\ _clean(nyc_df[k].address_norm) = _clean(leed_row.address_norm)
    /\ _clean(nyc_df[k].zip_norm) = _clean(leed_row.zip_norm)

\* the tag an ID or address + zip match is reported under
ReportedAs(parcel, building, address_zip) ==
  \A r \in Results :
    LET leed_row == LeedOf(r)
    IN IF SameField(leed_row, "bbl_norm") THEN r.match_method = parcel
       ELSE IF SameField(leed_row, "bin_norm") THEN r.match_method = building
       ELSE SameAddrZip(leed_row) => r.match_method = address_zip

QueueCount(r) ==
  Cardinality({k \in DOMAIN review_queue.rows :
                 /\ review_queue.rows[k].leed_source_id = r.leed_source_id
                 /\ review_queue.rows[k].match_confidence = r.match_confidence
                 /\ review_queue.rows[k].match_method = r.match_method})

DecisionsFor(id) ==
  SelectSeq(manual.rows,
            LAMBDA row : /\ "leed_source_id" \in DOMAIN row
                         /\ "decision" \in DOMAIN row
                         /\ row.leed_source_id = id
                         /\ row.decision \in {"match", "reject"})

\* the ids the mapping file decides
DecidedIds ==
  {manual.rows[k].leed_source_id :
     k \in {j \in DOMAIN manual.rows : "leed_source_id" \in DOMAIN manual.rows[j]}}

\* C8: after apply_manual_mapping, an id whose last non-skip decision is
\* match has a row, and every row of that id has confidence 100 and method
\* manual_review, whatever the matcher produced for it; an id whose last
\* non-skip decision is reject has no row
C8_OverridePrecedence ==
  pc \in {"mapped", "done"} =>
    \A id \in DecidedIds :
      LET decisions == DecisionsFor(id)
          last == decisions[Len(decisions)].decision
          rows == {r \in MatchedRows : r.leed_source_id = id}
      IN decisions # <<>> =>
           IF last = "match"
           THEN /\ rows # {}
                /\ \A r \in rows : r.match_confidence = 100
                                     /\ r.match_method = "manual_review"
           ELSE rows = {}

\* an automatic fuzzy match overridden by a manual match, and a record the
\* matcher had matched rejected
C8_Witness ==
  /\ pc = "mapped"
  /\ \E m \in Results, r \in MatchedRows :
       /\ m.leed_source_id = r.leed_source_id
       /\ m.match_method = "fuzzy_address"
       /\ r.match_method = "manual_review" /\ r.match_confidence = 100
  /\ \E m \in Results :
       /\ m.match_method # "none"
       /\ DecisionsFor(m.leed_source_id) # <<>>
       /\ ~\E r \in MatchedRows : r.leed_source_id = m.leed_source_id

\* the mapping file is malformed: empty, unparseable, or read without one of
\* the id columns
Malformed ==
  \/ manual_file \in {"empty", "unparseable"}
  \/ /\ manual_file = "ok"
     /\ manual.rows # <<>>
     /\ ~({"leed_source_id", "nyc_source_id"} \subseteq manual.columns)

\* C9: apply_manual_mapping does not raise and returns the matched set of
\* match_buildings unchanged when the path is empty, when the file does not
\* exist and when the file is malformed
C9_ManualMappingNoOp ==
  (manual_file \in {"no_path", "absent"} \/ Malformed) =>
    /\ error = ""
    /\ matched_df = DataFrame(matches, MATCH_COLUMNS)

\* C10: the table build_master_table returns has every one of the 20
\* contract columns, also when the matched set is empty
C10_ContractColumns ==
  pc = "done" =>
    /\ contract_cols \subseteq master.columns
    /\ \A k \in DOMAIN master.rows : contract_cols \subseteq DOMAIN master.rows[k]

(***************************************************************************)
(* Properties of the master table and of the results of match_buildings    *)
(***************************************************************************)

\* the number of rows of the master table built for a LEED record
MasterCount(id) ==
  Cardinality({k \in DOMAIN master.rows : master.rows[k].leed_source_id = id})

\* C11: match_buildings followed by build_master_table, with or without
\* overrides, yields a master table with exactly one row for each record of
\* the LEED input table
C11_OneRowPerLeedRecord ==
  pc = "done" =>
    /\ Len(master.rows) = Len(leed_df)
    /\ \A k \in DOMAIN leed_df : MasterCount(leed_df[k].source_id) = 1

\* C11 (amended): the master table has exactly one row for each row of the
\* matched set as it stands after the overrides, in the same order; a LEED
\* record that is unmatched or rejected has no row
C11_OneRowPerMatch ==
  pc = "done" =>
    /\ Len(master.rows) = Len(matched_df.rows)
    /\ \A k \in DOMAIN master.rows :
         master.rows[k].leed_source_id = matched_df.rows[k].leed_source_id
    /\ \A k \in DOMAIN leed_df :
         MasterCount(leed_df[k].source_id) =
           IF \E r \in MatchedRows : r.leed_source_id = leed_df[k].source_id
           THEN 1 ELSE 0

\* a finished run with two LEED records, one of them unmatched and left out
\* of the master table, the other one in it by a manual match
C11_Witness ==
  /\ pc = "done"
  /\ Len(leed_df) = 2
  /\ Len(master.rows) = 1
  /\ master.rows[1].match_method = "manual_review"
  /\ \E u \in Results : u.match_method = "none" /\ MasterCount(u.leed_source_id) = 0

\* the ids of the tables joined to the LEED records
ForeignIds ==
  {nyc_df[k].source_id : k \in DOMAIN nyc_df} \union {"NYC_2", "1001234005"}

\* C12: in every row of the master table source_id is the row's
\* leed_source_id, never an id of the NYC, LL97 or benchmarking tables, and
\* match_confidence, match_method and match_notes are those of the row of
\* the matched set it was built from
C12_SourceIdIsLeedId ==
  pc = "done" =>
    \A k \in DOMAIN master.rows :
      /\ master.rows[k].source_id = matched_df.rows[k].leed_source_id
      /\ master.rows[k].source_id = master.rows[k].leed_source_id
      /\ master.rows[k].source_id \notin ForeignIds
      /\ master.rows[k].match_confidence = matched_df.rows[k].match_confidence
      /\ master.rows[k].match_method = matched_df.rows[k].match_method
      /\ master.rows[k].match_notes = matched_df.rows[k].match_notes

\* a master row joined to an NYC record and to the LL97 table, next to a row
\* from a manual match
C12_Witness ==
  /\ pc = "done"
  /\ \E k \in DOMAIN master.rows :
       /\ master.rows[k].nyc_grades_source_id \in {"NYC_1", "NYC_2"}
       /\ master.rows[k].ll97_limit_tco2e = "100"
       /\ master.rows[k].source_id \in {"LEED_1", "LEED_2"}
  /\ \E k \in DOMAIN master.rows : master.rows[k].match_method = "manual_review"

\* the rows of matches and of unmatched_leed emitted for a LEED record
MatchedCount(id) ==
  Cardinality({k \in DOMAIN matches : matches[k].leed_source_id = id})

UnmatchedCount(id) ==
  Cardinality({k \in DOMAIN unmatched_leed : unmatched_leed[k].leed_source_id = id})

\* C13: match_buildings emits exactly one result for each LEED record it has
\* processed, a matched row with a position or an unmatched row, never both
\* and never two matched rows; an unmatched row has confidence 0, method none
\* and the note "No match found"
C13_OneResultPerRecord ==
  /\ \A k \in DOMAIN leed_df :
       MatchedCount(leed_df[k].source_id) + UnmatchedCount(leed_df[k].source_id)
         = IF k <= leed_pos THEN 1 ELSE 0
  /\ Len(matches) + Len(unmatched_leed) = leed_pos
  /\ \A k \in DOMAIN matches :
       matches[k].nyc_index \in 0..(Len(nyc_df) - 1)
  /\ \A k \in DOMAIN unmatched_leed :
       /\ unmatched_leed[k].match_confidence = 0
       /\ unmatched_leed[k].match_method = "none"
       /\ unmatched_leed[k].match_notes = "No match found"

\* two LEED records matched to the same NYC position, in a table where two
\* NYC records tie for the first of them
C13_Witness ==
  /\ leed_pos = 2
  /\ Len(matches) = 2
  /\ matches[1].nyc_index = matches[2].nyc_index
  /\ Len(nyc_df) = 2
  /\ _clean(nyc_df[1].address_norm) = _clean(nyc_df[2].address_norm)
  /\ _clean(nyc_df[1].zip_norm) = _clean(nyc_df[2].zip_norm)
  /\ matches[1].match_method = "exact_address"

\* C14: match_buildings does not raise, in particular when no LEED record
\* finds a match: it returns, and every unmatched record is in the review
\* queue with confidence 0 and method none
C14_NoRaiseWhenNothingMatches ==
  /\ error # "KeyError"
  /\ (pc # "index" /\ leed_pos = Len(leed_df) /\ pc # "match") =>
       \A u \in {unmatched_leed[k] : k \in DOMAIN unmatched_leed} :
         \E q \in QueueRows :
           /\ q.leed_source_id = u.leed_source_id
           /\ q.match_confidence = 0
           /\ q.match_method = "none"

\* the normalized fields of a LEED record that the strategies read
NormFields(row) ==
  <<_clean(row.bbl_norm), _clean(row.bin_norm), _clean(row.address_norm),
    _clean(row.zip_norm), _clean(row.building_name_norm), _clean(row.borough_norm)>>

\* the position, confidence and method of a result
Outcome(r) ==
  <<IF "nyc_index" \in DOMAIN r THEN r.nyc_index ELSE None,
    r.match_confidence, r.match_method>>

\* the outcome of the five strategies run for a record in the current state
OutcomeNow(leed_row) ==
  LET best == BestMatch(leed_row)
  IN <<best.best_match, best.best_confidence,
       IF best.best_match = None THEN "none" ELSE best.best_method>>

\* the results depend on the record alone: records with the same normalized
\* fields have the same outcome, and the strategies run again for a record
\* at any later point of the loop give the outcome recorded for it
ResultsDependOnRecordOnly ==
  /\ \A r1 \in Results, r2 \in Results :
       NormFields(LeedOf(r1)) = NormFields(LeedOf(r2)) => Outcome(r1) = Outcome(r2)
  /\ pc = "match" => \A r \in Results : Outcome(r) = OutcomeNow(LeedOf(r))

\* C15: the result of a LEED record (position, confidence, method) is a
\* function of its normalized fields, the NYC table and the thresholds only,
\* not of the other LEED records or of their order, and no step of the
\* matching loop modifies the NYC table, the thresholds or the lookup indexes
C15_PerRecordDeterminism ==
  /\ []ResultsDependOnRecordOnly
  /\ [][pc = "match" => UNCHANGED <<nyc_df, fuzzy_address_threshold,
                                    fuzzy_name_threshold, index_vars>>]_vars

\* two records with the same fields matched to the same position, the first
\* of two NYC records listed under their BBL
C15_Witness ==
  /\ pc = "match"
  /\ leed_pos = 2
  /\ Len(matches) = 2
  /\ NormFields(leed_df[1]) = NormFields(leed_df[2])
  /\ matches[1].match_method = "exact_bbl"
  /\ Len(nyc_df) = 2
  /\ nyc_by_bbl[_clean(leed_df[1].bbl_norm)] = <<0, 1>>

\* the index labels of the NYC records that satisfy P, and the first of them
LabelsWhere(P(_)) == {k - 1 : k \in {j \in DOMAIN nyc_df : P(nyc_df[j])}}

FirstWhere(P(_)) == CHOOSE i \in LabelsWhere(P) : \A j \in LabelsWhere(P) : i <= j

\* the result is a match to the NYC record of a label, at a confidence
MatchedTo(r, label, confidence) ==
  /\ "nyc_index" \in DOMAIN r
  /\ r.nyc_index = label
  /\ r.match_confidence = confidence

\* C16: a LEED record whose non-empty BBL is a BBL of the NYC table is
\* matched to the first NYC record of that BBL at confidence 100, whatever
\* its other fields are and also when its BIN is that of another NYC record;
\* the BIN is consulted only when the BBL gave no match, and then the record
\* is matched to the first NYC record of that BIN at confidence 100
C16_IdTiers ==
  \A r \in Results :
    LET leed_row == LeedOf(r)
        HasBbl(row) == _clean(row.bbl_norm) = _clean(leed_row.bbl_norm)
        HasBin(row) == _clean(row.bin_norm) = _clean(leed_row.bin_norm)
    IN IF SameField(leed_row, "bbl_norm")
       THEN MatchedTo(r, FirstWhere(HasBbl), 100) /\ r.match_method = "exact_bbl"
       ELSE SameField(leed_row, "bin_norm") =>
              MatchedTo(r, FirstWhere(HasBin), 100) /\ r.match_method = "exact_bin"

\* a record with an address and a name matched by BBL to the second NYC
\* record although its BIN is that of the first
C16_Witness ==
  /\ pc = "match"
  /\ \E r \in Results :
       /\ r.match_method = "exact_bbl"
       /\ r.match_confidence = 100
       /\ r.nyc_index = 1
       /\ _clean(nyc_df[1].bin_norm) = _clean(LeedOf(r).bin_norm)
       /\ _clean(LeedOf(r).address_norm) # ""
       /\ _clean(LeedOf(r).building_name_norm) # ""

\* neither the BBL nor the BIN of the LEED record is in the NYC table
NoIdMatch(leed_row) ==
  ~SameField(leed_row, "bbl_norm") /\ ~SameField(leed_row, "bin_norm")

\* C17: a LEED record that no ID tier matched and whose non-empty address
\* and zip are those of an NYC record is matched to the first such NYC
\* record at confidence 90, and no later tier (exact address without zip,
\* fuzzy address, fuzzy name) changes that position or confidence
C17_ExactAddressZip ==
  \A r \in Results :
    LET leed_row == LeedOf(r)
        HasAddrZip(row) == /\ _clean(row.address_norm) = _clean(leed_row.address_norm)
                           /\ _clean(row.zip_norm) = _clean(leed_row.zip_norm)
    IN NoIdMatch(leed_row) /\ SameAddrZip(leed_row) =>
         MatchedTo(r, FirstWhere(HasAddrZip), 90) /\ r.match_method = "exact_address"

\* an address + zip match to the second NYC record while the first NYC record
\* has the same address and the same borough, which Strategy 3b would take
C17_Witness ==
  /\ pc = "match"
  /\ \E r \in Results :
       /\ r.match_method = "exact_address"
       /\ r.match_confidence = 90
       /\ r.nyc_index = 1
       /\ _clean(nyc_df[1].address_norm) = _clean(LeedOf(r).address_norm)
       /\ _clean(nyc_df[1].borough_norm) = _clean(LeedOf(r).borough_norm)
       /\ _clean(nyc_df[1].zip_norm) # _clean(LeedOf(r).zip_norm)

\* the NYC record has the address of the LEED record
SameAddress(leed_row, row) ==
  /\ _clean(leed_row.address_norm) # ""
  /\ _clean(row.address_norm) = _clean(leed_row.address_norm)

\* the NYC record has the address and the non-empty borough of the LEED record
SameAddressBorough(leed_row, row) ==
  /\ SameAddress(leed_row, row)
  /\ _clean(leed_row.borough_norm) # ""
  /\ _clean(row.borough_norm) = _clean(leed_row.borough_norm)

\* neither an ID tier nor the address + zip tier matches the LEED record,
\* and some NYC record has its address
AddressOnly(leed_row) ==
  /\ NoIdMatch(leed_row)
  /\ ~SameAddrZip(leed_row)
  /\ \E k \in DOMAIN nyc_df : SameAddress(leed_row, nyc_df[k])

\* C18: when neither ID nor address + zip matched and some NYC records have
\* the address of the LEED record: if any of them has the borough of the
\* LEED record, the first such record in NYC order is selected at confidence
\* 88 with method exact_address_borough, even when NYC records of the same
\* address and another borough precede it; only if none has the borough is
\* the result confidence 85 with method exact_address_no_zip
C18_BoroughQualifiedFirst ==
  \A r \in Results :
    LET leed_row == LeedOf(r)
        Qualified(row) == SameAddressBorough(leed_row, row)
        Unqualified(row) == SameAddress(leed_row, row)
    IN AddressOnly(leed_row) =>
         IF LabelsWhere(Qualified) # {}
         THEN /\ MatchedTo(r, FirstWhere(Qualified), 88)
              /\ r.match_method = "exact_address_borough"
         ELSE /\ "nyc_index" \in DOMAIN r
              /\ r.nyc_index \in LabelsWhere(Unqualified)
              /\ r.match_confidence = 85
              /\ r.match_method = "exact_address_no_zip"

\* a borough-qualified match to the second NYC record, the first NYC record
\* having the same address and another borough
C18_Witness ==
  /\ pc = "match"
  /\ \E r \in Results :
       /\ r.match_method = "exact_address_borough"
       /\ r.match_confidence = 88
       /\ r.nyc_index = 1
       /\ SameAddress(LeedOf(r), nyc_df[1])
       /\ ~SameAddressBorough(LeedOf(r), nyc_df[1])

\* C19: when several NYC records have the address of the LEED record and
\* none has its borough, the record selected at confidence 85 is the first
\* of them in NYC table order, also when that first record is the first row
\* of the NYC table
C19_FirstFoundAt85 ==
  \A r \in Results :
    LET leed_row == LeedOf(r)
        Qualified(row) == SameAddressBorough(leed_row, row)
        Unqualified(row) == SameAddress(leed_row, row)
    IN AddressOnly(leed_row) /\ LabelsWhere(Qualified) = {} =>
         MatchedTo(r, FirstWhere(Unqualified), 85)

\* C20: a fuzzy_address match of a LEED record that has a zip points to an
\* NYC record of the same zip; candidates are admitted on a shared borough
\* only when the LEED record has no zip
C20_FuzzyAddressSameZip ==
  \A r \in Results :
    r.match_method = "fuzzy_address" /\ _clean(LeedOf(r).zip_norm) # "" =>
      _clean(NycRow(r.nyc_index).zip_norm) = _clean(LeedOf(r).zip_norm)

(***************************************************************************)
(* One fuzzy tier on a single candidate: process.extractOne returns the    *)
(* candidate if its score reaches score_cutoff, and the tier rescales the  *)
(* score onto its confidence band (matching.py lines 155-170, 183-198).    *)
(***************************************************************************)
MaxThreshold == 99

MaxScore == 100

\* the lower and upper bound of the band of a tier
BandLo(t) == IF t = "fuzzy_address" THEN 70 ELSE 50

BandHi(t) == IF t = "fuzzy_address" THEN 89 ELSE 69

\* the threshold of a tier
TierThreshold(t) ==
  IF t = "fuzzy_address" THEN fuzzy_address_threshold ELSE fuzzy_name_threshold

InitRescale ==
  /\ tier \in {"fuzzy_address", "fuzzy_name"}
  /\ tier_score \in 0..MaxScore
  /\ tier_confidence = None
  /\ \E threshold \in 0..MaxThreshold :
       /\ fuzzy_address_threshold = (IF tier = "fuzzy_address" THEN threshold ELSE 80)
       /\ fuzzy_name_threshold = (IF tier = "fuzzy_name" THEN threshold ELSE 75)
  /\ pc = "rescale"
  /\ leed_df = <<>>
  /\ nyc_df = <<>>
  /\ min_confidence = 50
  /\ use_manual_mapping = FALSE
  /\ nyc_by_bbl = <<>>
  /\ nyc_by_bin = <<>>
  /\ nyc_by_addr_zip = <<>>
  /\ nyc_addr_list = <<>>
  /\ leed_pos = 0
  /\ matches = <<>>
  /\ unmatched_leed = <<>>
  /\ matched_df = EmptyFrame
  /\ review_queue = EmptyFrame
  /\ manual_file = "unread"
  /\ manual = EmptyFrame
  /\ master = EmptyFrame
  /\ error = ""
  /\ norm_fn = "none"
  /\ norm_raw = <<>>
  /\ norm_out = <<>>
  /\ norm_prev = <<>>
  /\ norm_calls = 0
  /\ TablesUnread
  /\ RunnerIdle

\* the tier on its candidate: no result below the cutoff, else the rescaled
\* confidence, which is above the best_confidence of 0 of an unmatched record
Rescale(t) ==
  /\ pc = "rescale"
  /\ tier = t
  /\ tier_confidence' =
       IF tier_score >= TierThreshold(t)
       THEN FuzzyConfidence(BandLo(t), BandHi(t), tier_score, TierThreshold(t))
       ELSE None
  /\ pc' = "rescaled"
  /\ UNCHANGED <<norm_vars, input_vars, index_vars, loop_vars, matched_df,
                 review_queue, manual_vars, master, error, table_vars,
                 runner_vars, tier, tier_score>>

RescaleFuzzyAddress == Rescale("fuzzy_address")

RescaleFuzzyName == Rescale("fuzzy_name")

NextRescale ==
  \/ RescaleFuzzyAddress
  \/ RescaleFuzzyName

SpecRescale == InitRescale /\ [][NextRescale]_vars

\* C21: for an integer score s and threshold t with t <= s <= 100 and
\* t < 100 the confidence of a fuzzy tier is lo + (s - t) * 19 / (100 - t)
\* truncated to an integer and clamped to the band lo..hi (70..89 for
\* fuzzy_address, 50..69 for fuzzy_name): it is lo at s = t, hi at s = 100,
\* non-decreasing in s, and a candidate with s < t is not matched by the tier
C21_RescaledConfidence ==
  pc = "rescaled" =>
    LET lo == BandLo(tier)
        hi == BandHi(tier)
        t == TierThreshold(tier)
        s == tier_score
        q == tier_confidence - lo
    IN IF s < t THEN tier_confidence = None
       ELSE /\ tier_confidence \in lo..hi
            /\ q * (100 - t) <= (s - t) * 19
            /\ (s - t) * 19 < (q + 1) * (100 - t)
            /\ s = t => tier_confidence = lo
            /\ s = 100 => tier_confidence = hi
            /\ \A lower \in t..s :
                 FuzzyConfidence(lo, hi, lower, t) <= tier_confidence

\* a score strictly inside the range whose rescaled value is truncated
C21_Witness ==
  /\ pc = "rescaled"
  /\ tier = "fuzzy_name"
  /\ fuzzy_name_threshold = 75
  /\ tier_score = 88
  /\ tier_confidence = 59

\* the NYC record has a name and the zip or the borough of the LEED record
NamedNeighbour(leed_row, row) ==
  /\ _clean(row.building_name_norm) # ""
  /\ \/ /\ _clean(leed_row.zip_norm) # ""
        /\ _clean(row.zip_norm) = _clean(leed_row.zip_norm)
     \/ /\ _clean(leed_row.borough_norm) # ""
        /\ _clean(row.borough_norm) = _clean(leed_row.borough_norm)

\* the name score of an NYC record against the LEED record
NameScore(leed_row, label) ==
  token_sort_ratio(_clean(leed_row.building_name_norm),
                   _clean(NycRow(label).building_name_norm))

\* C22: the fuzzy-name tier is attempted only when no earlier tier gave a
\* match of confidence 70 or more; its candidates are exactly the NYC
\* records that have a name and the zip or the borough of the LEED record,
\* and the best-scoring candidate at or above the name threshold is matched
\* with method fuzzy_name and a confidence in 50..69
C22_FuzzyNameCandidates ==
  \A r \in Results :
    LET leed_row == LeedOf(r)
        Candidate(row) == NamedNeighbour(leed_row, row)
        candidates == LabelsWhere(Candidate)
        passing == {i \in candidates : NameScore(leed_row, i) >= fuzzy_name_threshold}
    IN /\ r.match_method = "fuzzy_name" =>
            /\ r.match_confidence \in 50..69
            /\ r.nyc_index \in passing
            /\ \A i \in passing : NameScore(leed_row, i) <= NameScore(leed_row, r.nyc_index)
       /\ r.match_confidence < 70 /\ _clean(leed_row.building_name_norm) # ""
            /\ passing # {} => r.match_method = "fuzzy_name"

\* the ids of the LEED records in the review queue
QueuedIds == {q.leed_source_id : q \in QueueRows}

\* C23: the matcher output is partitioned by min_confidence: no LEED record
\* is both in the matched set passed on to apply_manual_mapping and
\* build_master_table and in the review queue, so a match of confidence
\* below min_confidence is in the review queue only
C23_MatchedQueuePartition ==
  pc \in {"matched", "mapped", "done"} =>
    /\ \A m \in MatchedRows : m.leed_source_id \notin QueuedIds
    /\ \A m \in MatchedRows : m.match_confidence >= min_confidence
    /\ \A k \in DOMAIN master.rows : master.rows[k].leed_source_id \notin QueuedIds

RECURSIVE RowAfter(_, _, _)
\* what an id has in the matched set after its decisions from row k of the
\* file on, applied one after the other: "auto" the row of the matcher,
\* "manual" a manual_review row, "none" no row
RowAfter(has, id, k) ==
  IF k > Len(manual.rows) THEN has
  ELSE LET row == manual.rows[k]
       IN IF row.leed_source_id # id THEN RowAfter(has, id, k + 1)
          ELSE IF row.decision = "reject" THEN RowAfter("none", id, k + 1)
          ELSE IF row.decision = "match" THEN RowAfter("manual", id, k + 1)
          ELSE RowAfter(has, id, k + 1)

\* the ids of the LEED records and of the decisions
AllIds ==
  {leed_df[k].source_id : k \in DOMAIN leed_df}
    \union {manual.rows[k].leed_source_id : k \in DOMAIN manual.rows}

\* the positions of the rows of an id in the matched set
RowsOf(id) == {k \in DOMAIN matched_df.rows : matched_df.rows[k].leed_source_id = id}

\* C24: apply_manual_mapping applies the decisions strictly in file order:
\* for each id the matched set after the call is what the decisions on that
\* id give when applied one after the other (match then reject leaves no
\* row, reject then match leaves exactly one manual_review row at confidence
\* 100); skip changes nothing; and the decisions on one id neither alter, add
\* nor remove a row of another id
C24_DecisionsInFileOrder ==
  pc \in {"mapped", "done"} /\ manual_file = "ok" /\ manual.columns = MANUAL_COLUMNS =>
    \A id \in AllIds :
      LET auto == {m \in Results : m.leed_source_id = id /\ m.match_method # "none"}
          after == RowAfter(IF auto = {} THEN "none" ELSE "auto", id, 1)
      IN CASE after = "none" -> RowsOf(id) = {}
           [] after = "manual" ->
                /\ Cardinality(RowsOf(id)) = 1
                /\ \A k \in RowsOf(id) :
                     /\ matched_df.rows[k].match_method = "manual_review"
                     /\ matched_df.rows[k].match_confidence = 100
           [] OTHER ->
                /\ Cardinality(RowsOf(id)) = 1
                /\ \A k \in RowsOf(id), m \in auto :
                     \A c \in DOMAIN m : matched_df.rows[k][c] = m[c]

\* a file that rejects and then matches a record the matcher had matched,
\* next to a record of another id whose automatic row is kept
C24_Witness ==
  /\ pc = "mapped"
  /\ manual_file = "ok"
  /\ Len(manual.rows) = 2
  /\ manual.rows[1].leed_source_id = manual.rows[2].leed_source_id
  /\ manual.rows[1].decision = "reject"
  /\ manual.rows[2].decision = "match"
  /\ \E m \in Results : /\ m.leed_source_id = manual.rows[1].leed_source_id
                        /\ m.match_method # "none"
  /\ \E m \in Results, r \in MatchedRows :
       /\ m.leed_source_id # manual.rows[1].leed_source_id
       /\ r.leed_source_id = m.leed_source_id
       /\ r.match_method = m.match_method
       /\ r.match_method \notin {"none", "manual_review"}

(***************************************************************************)
(* Script 06 on tables made for the joins of build_master_table: LEED and  *)
(* NYC records that match on BBL, and LL97 and benchmarking tables with    *)
(* duplicate, numeric and dashed BBLs.                                     *)
(***************************************************************************)
JoinLeedShapes ==
  { LeedShape("1001234005", NA, "", "", "", ""),
    LeedShape("3000010001", NA, "", "", "", "") }

\* the third record has its raw BBL written with dashes
JoinNycShapes ==
  { NycShape("1001234005", NA, NA, NA, NA, NA, "A"),
    NycShape("3000010001", NA, NA, NA, NA, NA, "B"),
    [NycShape("1001234005", NA, NA, NA, NA, NA, "C") EXCEPT !.bbl = "1-00123-4005"] }

JoinLl97Rows ==
  { [bbl |-> "1001234005", ghg_emissions_tco2e |-> "120",
     ll97_limit_tco2e |-> "100", ll97_overage_tco2e |-> "20"],
    [bbl |-> "1001234005", ghg_emissions_tco2e |-> "999",
     ll97_limit_tco2e |-> "900", ll97_overage_tco2e |-> "99"],
    [bbl |-> "1-00123-4005", ghg_emissions_tco2e |-> "7",
     ll97_limit_tco2e |-> "8", ll97_overage_tco2e |-> "-1"],
    [bbl |-> "3000010001", ghg_emissions_tco2e |-> NA,
     ll97_limit_tco2e |-> NA, ll97_overage_tco2e |-> NA] }

JoinBenchRows ==
  { [bbl |-> "1001234005", ghg_emissions_tco2e |-> "95", site_eui |-> "61"],
    [bbl |-> "3000010001", ghg_emissions_tco2e |-> "40", site_eui |-> "41"],
    [bbl |-> "1-00123-4005", ghg_emissions_tco2e |-> "5", site_eui |-> "6"] }

MaxJoinRows == 2

\* the tables of up to MaxJoinRows rows over a set of rows, and no table
JoinFrames(columns, rows) ==
  { EmptyFrame } \union
  { [columns |-> columns, rows |-> table] :
      table \in UNION { [1..n -> rows] : n \in 1..MaxJoinRows } }

JoinLl97Frames == JoinFrames({"bbl"} \union LL97_FIELDS, JoinLl97Rows)

JoinBenchFrames == JoinFrames({"bbl"} \union BENCH_FIELDS, JoinBenchRows)

InitJoin == MatchInit(JoinLeedShapes, JoinNycShapes, { <<80, 75, 50>> }, FALSE)

BuildMasterTableJoin == BuildMasterTableWith(JoinBenchFrames, JoinLl97Frames)

NextJoin ==
  \/ BuildIndexes
  \/ MatchRecord
  \/ BuildReviewQueue
  \/ SkipManualMapping
  \/ BuildMasterTableJoin

SpecJoin == InitJoin /\ [][NextJoin]_vars

\* the first row of a table that has a BBL, 0 if there is none
FirstOfBbl(frame, bbl) ==
  LET hits == {j \in DOMAIN frame.rows : frame.rows[j].bbl = bbl}
  IN IF hits = {} THEN 0 ELSE CHOOSE j \in hits : \A i \in hits : j <= i

\* the value the LL97 table has for a master row and a column: that of the
\* first LL97 row of the row's BBL, missing if there is none
Ll97Value(row, col) ==
  LET j == FirstOfBbl(ll97_df, row.bbl)
  IN IF row.bbl = NA \/ j = 0 \/ col \notin ll97_df.columns THEN NA
     ELSE ll97_df.rows[j][col]

BenchValue(row, col) ==
  LET j == FirstOfBbl(bench_df, row.bbl)
  IN IF row.bbl = NA \/ j = 0 \/ col \notin bench_df.columns THEN NA
     ELSE bench_df.rows[j][col]

\* C25: the LL97 fields of a master row are those of the first row of the
\* LL97 table that has the row's BBL, later duplicates being ignored; a
\* benchmarking value is written to a column only if the column is absent
\* or missing in every master row after the LL97 join: when some row took a
\* value of the column from the LL97 table, no row takes a benchmarking value
C25_EmissionsJoin ==
  pc = "done" /\ ~IsEmpty(master) =>
    /\ \A k \in DOMAIN master.rows, col \in LL97_FIELDS \ BENCH_FIELDS :
         master.rows[k][col] = Ll97Value(master.rows[k], col)
    /\ \A col \in BENCH_FIELDS \intersect LL97_FIELDS :
         IF \E k \in DOMAIN master.rows : Ll97Value(master.rows[k], col) # NA
         THEN \A k \in DOMAIN master.rows :
                master.rows[k][col] = Ll97Value(master.rows[k], col)
         ELSE \A k \in DOMAIN master.rows :
                master.rows[k][col] = BenchValue(master.rows[k], col)

\* the master row was built from a match that has a position of the NYC table
HasCandidate(row) ==
  /\ "nyc_index" \in DOMAIN row
  /\ row.nyc_index >= 0
  /\ row.nyc_index < Len(nyc_df)

\* C26: in every master row built from a match that has a candidate
\* position, the columns energy_grade, energy_star_score, bbl, bin and
\* borough hold the energy grade, score, BBL, BIN and borough of the NYC
\* record at that position (the score for tables that have the column)
C26_NycFieldsOfCandidate ==
  pc = "done" =>
    \A k \in DOMAIN master.rows :
      LET row == master.rows[k]
          nyc_row == NycRow(row.nyc_index)
      IN HasCandidate(row) =>
           /\ row.energy_grade = nyc_row.energy_grade
           /\ row.bbl = nyc_row.bbl
           /\ row.borough = nyc_row.borough_norm
           /\ row.bin = nyc_row.bin_norm
           /\ "energy_star_score" \in NYC_COLUMNS =>
                row.energy_star_score = nyc_row.energy_star_score

\* a lookup map lists under each key exactly the NYC records of that key,
\* in table order, and has no empty key; Key(row) is "" for a record that
\* has no key
IndexOf(map, Key(_)) ==
  /\ "" \notin DOMAIN map
  /\ \A key \in DOMAIN map \union {Key(nyc_df[j]) : j \in DOMAIN nyc_df} :
       \A j \in DOMAIN nyc_df :
         (key \in DOMAIN map /\ \E p \in DOMAIN map[key] : map[key][p] = j - 1)
           <=> (key # "" /\ Key(nyc_df[j]) = key)
  /\ \A key \in DOMAIN map :
       \A p, q \in DOMAIN map[key] : p < q => map[key][p] < map[key][q]

\* C27: after the indexes are built no lookup map has an empty-string key;
\* an NYC record is listed under key k of the BBL map, the BIN map or the
\* address|zip map iff its normalized field(s) are non-empty and equal k,
\* the address|zip map requiring both address and zip; records sharing a
\* key are listed in NYC table order; and duplicate keys never raise
C27_IndexConstruction ==
  pc # "index" =>
    LET BblKey(row) == _clean(row.bbl_norm)
        BinKey(row) == _clean(row.bin_norm)
        AddrZip(row) ==
          IF _clean(row.address_norm) = "" \/ _clean(row.zip_norm) = "" THEN ""
          ELSE _clean(row.address_norm) \o "|" \o _clean(row.zip_norm)
    IN /\ IndexOf(nyc_by_bbl, BblKey)
       /\ IndexOf(nyc_by_bin, BinKey)
       /\ IndexOf(nyc_by_addr_zip, AddrZip)
       /\ pc = "match" /\ leed_pos = 0 => error = ""

\* two NYC records listed under one BBL, in a table whose records have no
\* BIN
C27_Witness ==
  /\ pc = "match"
  /\ \E key \in DOMAIN nyc_by_bbl : nyc_by_bbl[key] = <<0, 1>>
  /\ DOMAIN nyc_by_bin = {}
  /\ Len(nyc_df) = 2

\* a street-name token that begins with the letters of a unit designator
FLATBUSH == <<"F","L","A","T","B","U","S","H">>

\* the token is a unit designator of _UNIT_RE
IsUnitWord(tok) == \E k \in DOMAIN UNIT_WORDS : UNIT_WORDS[k] = tok

\* C28: normalize_address removes only the unit designators that occur as
\* whole tokens (suite, ste, unit, apt, apartment, floor, fl, rm, room, #),
\* each with the token that follows it; a street-name token that merely
\* begins with those letters, such as FLATBUSH, is kept in the result
C28_UnitDesignatorsWholeTokens ==
  norm_fn = "address" /\ norm_calls = 1 =>
    LET toks == Split(Upper(norm_raw))
        kept == Split(norm_out)
    IN \A i \in DOMAIN toks :
         toks[i] = FLATBUSH /\ (i = 1 \/ ~IsUnitWord(toks[i - 1])) =>
           \E j \in DOMAIN kept : kept[j] = FLATBUSH

\* the columns a match decision writes
MANUAL_WRITES == {"nyc_source_id", "match_confidence", "match_method", "match_notes"}

\* the file holds a reject decision on the id
Rejected(id) ==
  \E k \in DOMAIN manual.rows :
    manual.rows[k].leed_source_id = id /\ manual.rows[k].decision = "reject"

\* the source-B fields build_master_table copies for candidate position i
FieldsAt(i) == NycFields([nyc_index |-> i], nyc_df)

\* C29: a match decision writes only nyc_source_id, match_confidence,
\* match_method and match_notes: a row the matcher made keeps nyc_index and
\* every other column, a row appended for an id without a row has nyc_index
\* empty, and the master table takes the source-B fields of the overridden
\* row from the automatic candidate at nyc_index (from none when nyc_index is
\* empty), whatever record the override's nyc_source_id names
C29_ManualMatchFrame ==
  pc \in {"mapped", "done"} /\ manual_file = "ok" /\ manual.columns = MANUAL_COLUMNS =>
    \A id \in AllIds :
      LET auto == {m \in Results : m.leed_source_id = id /\ m.match_method # "none"}
          after == RowAfter(IF auto = {} THEN "none" ELSE "auto", id, 1)
          existing == auto # {} /\ ~Rejected(id)
      IN after = "manual" =>
           \A k \in RowsOf(id) :
             LET r == matched_df.rows[k]
             IN /\ r.nyc_source_id = "NYC_2"
                /\ IF existing
                   THEN \A m \in auto : \A c \in DOMAIN m \ MANUAL_WRITES : r[c] = m[c]
                   ELSE r.nyc_index = NaN
                /\ pc = "done" =>
                     \A c \in DOMAIN FieldsAt(r.nyc_index) :
                       master.rows[k][c] = FieldsAt(r.nyc_index)[c]

\* a finished run with two source-B records where the override of an
\* automatic match names the second record and the master row carries the
\* fields of the first, next to an appended row without source-B fields
C29_Witness ==
  /\ pc = "done"
  /\ manual_file = "ok"
  /\ Len(nyc_df) = 2
  /\ nyc_df[1].energy_grade # nyc_df[2].energy_grade
  /\ \E k \in DOMAIN master.rows :
       /\ master.rows[k].match_method = "manual_review"
       /\ master.rows[k].nyc_source_id = "NYC_2"
       /\ master.rows[k].nyc_index = 0
       /\ master.rows[k].nyc_grades_source_id = "NYC_1"
       /\ master.rows[k].energy_grade = nyc_df[1].energy_grade
  /\ \E k \in DOMAIN master.rows :
       /\ master.rows[k].match_method = "manual_review"
       /\ master.rows[k].nyc_source_id = "NYC_2"
       /\ master.rows[k].nyc_index = NaN
       /\ master.rows[k].nyc_grades_source_id = NA
       /\ master.rows[k].energy_grade = NA

(***************************************************************************)
(* The end-to-end runner, scripts/10_run_all.py                            *)
(***************************************************************************)

\* the download steps in the order of the loop
DOWNLOADS ==
  <<"01_get_leed", "02_get_nyc_energy_grades", "03_get_nyc_benchmarking",
    "04_get_nyc_ll97">>

\* main() after the arguments are parsed, with or without --skip-download
InitRunner ==
  /\ skip_download \in BOOLEAN
  /\ run_pc = "download"
  /\ called = <<>>
  /\ raised = {}
  /\ step_times = <<>>
  /\ run_log = FALSE
  /\ PipeIdle
  /\ TablesUnread
  /\ RescaleIdle
  /\ norm_fn = "none"
  /\ norm_raw = <<>>
  /\ norm_out = <<>>
  /\ norm_prev = <<>>
  /\ norm_calls = 0

\* a step whose except clause logs and goes on: mod.main() returns or raises
\* an Exception, and its time is recorded in both cases
StepContinuing(step_name, then) ==
  /\ called' = Append(called, step_name)
  /\ \E ok \in BOOLEAN : raised' = IF ok THEN raised ELSE raised \union {step_name}
  /\ step_times' = Append(step_times, step_name)
  /\ run_pc' = then
  /\ UNCHANGED <<skip_download, run_log>>
  /\ UNCHANGED <<norm_vars, pipe_vars, table_vars, rescale_vars>>

\* a step whose except clause logs and returns from main
StepReturning(step_name, then) ==
  /\ called' = Append(called, step_name)
  /\ \E ok \in BOOLEAN :
       IF ok
       THEN /\ step_times' = Append(step_times, step_name)
            /\ run_pc' = then
            /\ UNCHANGED raised
       ELSE /\ raised' = raised \union {step_name}
            /\ run_pc' = "returned"
            /\ UNCHANGED step_times
  /\ UNCHANGED <<skip_download, run_log>>
  /\ UNCHANGED <<norm_vars, pipe_vars, table_vars, rescale_vars>>

\* one iteration of the loop over the download steps
Download ==
  /\ run_pc = "download"
  /\ ~skip_download
  /\ StepContinuing(DOWNLOADS[Len(called) + 1],
                    IF Len(called) + 1 = Len(DOWNLOADS) THEN "05" ELSE "download")

\* the else branch of --skip-download
SkipDownload ==
  /\ run_pc = "download"
  /\ skip_download
  /\ run_pc' = "05"
  /\ UNCHANGED <<skip_download, called, raised, step_times, run_log>>
  /\ UNCHANGED <<norm_vars, pipe_vars, table_vars, rescale_vars>>

Step05 ==
  /\ run_pc = "05"
  /\ StepReturning("05_clean_normalize", "06")

Step06 ==
  /\ run_pc = "06"
  /\ StepReturning("06_match_buildings", "07")

Step07 ==
  /\ run_pc = "07"
  /\ StepReturning("07_compute_metrics", "08")

\* a chart step whose failure ends the run
Step08_returns_on_failure ==
  /\ run_pc = "08"
  /\ StepReturning("08_make_charts", "09")

Step08 ==
  /\ run_pc = "08"
  /\ StepContinuing("08_make_charts", "09")

Step09 ==
  /\ run_pc = "09"
  /\ StepContinuing("09_generate_report", "log")

\* write_run_log(...), called outside any try: it writes run_log.txt, or an
\* exception of its file operations leaves main
WriteRunLog ==
  /\ run_pc = "log"
  /\ called' = Append(called, "write_run_log")
  /\ \E ok \in BOOLEAN :
       IF ok
       THEN /\ run_log' = TRUE
            /\ run_pc' = "qa"
            /\ UNCHANGED raised
       ELSE /\ raised' = raised \union {"write_run_log"}
            /\ run_pc' = "raised"
            /\ UNCHANGED run_log
  /\ UNCHANGED <<skip_download, step_times>>
  /\ UNCHANGED <<norm_vars, pipe_vars, table_vars, rescale_vars>>

\* the QA checks and the closing log lines: they read the master table and
\* write nothing
QaChecks ==
  /\ run_pc = "qa"
  /\ run_pc' = "returned"
  /\ UNCHANGED <<skip_download, called, raised, step_times, run_log>>
  /\ UNCHANGED <<norm_vars, pipe_vars, table_vars, rescale_vars>>

NextRunner ==
  \/ Download
  \/ SkipDownload
  \/ Step05
  \/ Step06
  \/ Step07
  \/ Step08
  \/ Step09
  \/ WriteRunLog
  \/ QaChecks

SpecRunner == InitRunner /\ [][NextRunner]_vars

\* the steps whose failure returns from main
RETURNING == {"05_clean_normalize", "06_match_buildings", "07_compute_metrics"}

\* every step of a run in order, the run log last
RunOrder ==
  (IF skip_download THEN <<>> ELSE DOWNLOADS)
    \o <<"05_clean_normalize", "06_match_buildings", "07_compute_metrics",
         "08_make_charts", "09_generate_report", "write_run_log">>

\* C30: the runner executes its steps in the fixed order downloads 01-04
\* (unless --skip-download), 05, 06, 07, 08, 09, run log; a failure of a
\* download step, of step 08 or of step 09 prevents neither the following
\* steps nor the run log from executing; a failure of step 05, 06 or 07 ends
\* the run at once, so that no later step runs and no run log is written
C30_RunnerOrder ==
  /\ Len(called) <= Len(RunOrder)
  /\ \A k \in DOMAIN called : called[k] = RunOrder[k]
  /\ \A k \in DOMAIN called :
       called[k] \in raised /\ called[k] \in RETURNING =>
         k = Len(called) /\ run_pc = "returned" /\ ~run_log
  /\ run_pc \in {"returned", "raised"} /\ raised \intersect RETURNING = {} =>
       called = RunOrder
  /\ run_pc = "returned" /\ raised \intersect RETURNING = {} => run_log
  /\ run_log => called = RunOrder

\* a finished run whose first download, chart and report steps all failed
\* and whose run log was written after every step had run
C30_Witness ==
  /\ run_pc = "returned"
  /\ ~skip_download
  /\ {"01_get_leed", "08_make_charts", "09_generate_report"} \subseteq raised
  /\ called = RunOrder
  /\ run_log

====
